---- MODULE Spec2Model ----
(***************************************************************************)
(* The Arrow IPC fixed-size-list decoder and skip walker of polars-arrow   *)
(* (crates/polars-arrow/src/io/ipc/read/array/fixed_size_list.rs).         *)
(*                                                                         *)
(* A record batch carries two queues, field_nodes and buffers, that the    *)
(* decoders pop from the front.  read_fixed_size_list and                  *)
(* skip_fixed_size_list are translated statement by statement; the         *)
(* functions they call that live in other files of the crate               *)
(* (try_get_field_node, read_validity, the read / skip dispatchers, the    *)
(* primitive leaf decoder, FixedSizeListArray::try_new) and the writer     *)
(* that produces the queues are modelled from the specification.           *)
(*                                                                         *)
(* variadic_buffer_counts, reader, dictionaries, block_offset,             *)
(* is_little_endian, compression, version and scratch are handed through   *)
(* to the callees untouched by the two functions; a buffer is modelled by  *)
(* the elements its bytes decode to.                                       *)
(***************************************************************************)
EXTENDS Integers, Sequences, FiniteSets, TLC

VARIABLES
    schema,        \* the column types of the record batch, in writer order
    field_nodes,   \* VecDeque<Node>: the field nodes not yet popped
    buffers,       \* VecDeque<IpcBuffer>: the buffers not yet popped
    limit,         \* Option<usize>: the row limit of the batch decode
    col,           \* 1-based index of the next column to decode or skip
    pc,            \* "run" while columns remain, "done", or "failed"
    input,         \* what the writer encoded (length, nulls) and how the queues were damaged
    last,          \* the last decoder call: its operation, queues before, result
    file,          \* the IPC source an IpcReader was opened on
    rd,            \* the fields of the IpcReader
    log,           \* what the reader's calls did to the source and printed
    out,           \* the call that consumed the reader, and its result
    source,        \* the bytes of a record batch that concurrent decode calls read
    tasks,         \* the concurrent decode calls: each its queues, reader and position
    uri,           \* the argument of HFPathParts::try_from_uri
    parts,         \* its result
    finder,        \* a call of GetPages::find_link: its arguments, the header left, its result
    topk,          \* a call of top_k: the column, k, descending, the partitioned values, its result
    gp,            \* a GetPages and the requests made through it
    walk           \* a call of expand_paths_hf: its locals and its position

decoderVars == <<schema, field_nodes, buffers, limit, col, pc, input, last>>
readerVars == <<file, rd, log, out>>
taskVars == <<source, tasks>>
pathVars == <<uri, parts>>
hubVars == <<finder, gp, walk>>
vars == <<schema, field_nodes, buffers, limit, col, pc, input, last, file, rd, log, out,
          source, tasks, uri, parts, finder, topk, gp, walk>>

----------------------------------------------------------------------------
(* Bounds of the model. *)

\* Widths of a fixed-size list range over 0..MaxSize.
MaxSize == 2
\* Logical lengths of the encoded column range over 0..MaxLen.
MaxLen == 2
\* usize is modelled UsizeBits wide; every array of the model is shorter than 2^UsizeBits.
UsizeBits == 7

UsizeMax == 2 ^ UsizeBits - 1

----------------------------------------------------------------------------
(* Option<T>, min. *)

None == [some |-> FALSE]
Some(x) == [some |-> TRUE, v |-> x]

Min(a, b) == IF a <= b THEN a ELSE b

\* No link header is searched, no top_k runs, no listing is under way.
HubIdle == finder = None /\ gp = None /\ walk = None
TopKIdle == topk = None

\* <<1, 2, ..., n>> and <<x, x, ..., x>>
Iota(n) == [i \in 1..n |-> i]
Repeat(x, n) == [i \in 1..n |-> x]

----------------------------------------------------------------------------
(* ArrowDataType: a primitive leaf, or FixedSizeList(child, size). *)

Int32 == [kind |-> "prim"]
FixedSizeList(child, size) == [kind |-> "fsl", size |-> size, child |-> child]

Sizes == 0..MaxSize

\* Fixed-size-list column types whose child nests 0, 1 or 2 further fixed-size lists.
Nested0 == {FixedSizeList(Int32, s) : s \in Sizes}
Nested1 == {FixedSizeList(t, s) : t \in Nested0, s \in Sizes}
Nested2 == {FixedSizeList(t, s) : t \in Nested1, s \in Sizes}
ListTypes == Nested0 \cup Nested1 \cup Nested2

RECURSIVE Depth(_)
Depth(dtype) == IF dtype.kind = "fsl" THEN 1 + Depth(dtype.child) ELSE 0

RECURSIVE AllSizesPositive(_)
AllSizesPositive(dtype) ==
    IF dtype.kind = "fsl" THEN dtype.size > 0 /\ AllSizesPositive(dtype.child) ELSE TRUE

\* FixedSizeListArray::get_child_and_size
get_child_and_size(dtype) == [field |-> dtype.child, size |-> dtype.size]

----------------------------------------------------------------------------
(* The writer: the pre-order encoding of a column.                         *)
(* A node carries the declared length and null count; a buffer carries its *)
(* elements (validity bits as 0/1, values as integers).  owner = <<column, *)
(* level>> names the schema-tree position an entry was written for; no     *)
(* decoder reads it.                                                       *)

Node(length, null_count, owner) ==
    [length |-> length, null_count |-> null_count, owner |-> owner]
IpcBuffer(data, owner) == [data |-> data, owner |-> owner]

NoOwner == <<0, 0>>

\* Validity of a level of `length` rows: the first row is null when nulls is set.
Bits(length, nulls) == [i \in 1..length |-> IF nulls /\ i = 1 THEN 0 ELSE 1]
NullCount(length, nulls) == IF nulls /\ length > 0 THEN 1 ELSE 0

\* extra: rows the leaf declares and stores beyond what its parents imply.
RECURSIVE Encode(_, _, _, _, _, _)
Encode(c, lvl, dtype, length, nulls, extra) ==
    IF dtype.kind = "fsl"
    THEN LET rest == Encode(c, lvl + 1, dtype.child, length * dtype.size, nulls, extra)
         IN  [nodes |-> <<Node(length, NullCount(length, nulls), <<c, lvl>>)>> \o rest.nodes,
              bufs  |-> <<IpcBuffer(IF NullCount(length, nulls) > 0
                                    THEN Bits(length, nulls) ELSE <<>>, <<c, lvl>>)>>
                        \o rest.bufs]
    ELSE LET n == length + extra
         IN  [nodes |-> <<Node(n, NullCount(n, nulls), <<c, lvl>>)>>,
              bufs  |-> <<IpcBuffer(IF NullCount(n, nulls) > 0 THEN Bits(n, nulls) ELSE <<>>,
                                    <<c, lvl>>),
                          IpcBuffer(Iota(n), <<c, lvl>>)>>]

\* The top node declares `more` rows beyond the encoded ones (its validity is as long).
DeclareMore(enc, more) ==
    IF more = 0 THEN enc
    ELSE LET n0 == enc.nodes[1]
             b0 == enc.bufs[1]
         IN  [nodes |-> <<[n0 EXCEPT !.length = n0.length + more]>> \o Tail(enc.nodes),
              bufs  |-> <<[b0 EXCEPT !.data = IF n0.null_count > 0
                                              THEN b0.data \o Repeat(1, more) ELSE <<>>]>>
                        \o Tail(enc.bufs)]

\* The entries a well-formed encoding of dtype holds.
NodesOf(dtype) == Depth(dtype) + 1
BuffersOf(dtype) == Depth(dtype) + 2

DropLast(q, k) == SubSeq(q, 1, Len(q) - Min(k, Len(q)))

----------------------------------------------------------------------------
(* Results.  A call returns Ok(array) or Err(kind), and leaves the queues  *)
(* as far as it popped them.  trace lists the pops of the call in order    *)
(* (which queue, the popped entry's owner; NoOwner for a pop that found    *)
(* the queue empty); calls lists, per read_fixed_size_list activation, the *)
(* arguments it handed on.                                                 *)

NoArray == [kind |-> "none"]

Result(status, err, nodes, bufs, arr, trace, calls) ==
    [status |-> status, err |-> err, nodes |-> nodes, bufs |-> bufs, arr |-> arr,
     trace |-> trace, calls |-> calls]

PopNode(q) == [q |-> "node", owner |-> IF q = <<>> THEN NoOwner ELSE Head(q).owner]
PopBuf(q) == [q |-> "buf", owner |-> IF q = <<>> THEN NoOwner ELSE Head(q).owner]

----------------------------------------------------------------------------
(* Callees outside fixed_size_list.rs. *)

\* try_get_field_node: pop the front node, or the out-of-spec error.
try_get_field_node(nodes) ==
    IF nodes = <<>>
    THEN [ok |-> FALSE, err |-> "oos", rest |-> nodes]
    ELSE [ok |-> TRUE, node |-> Head(nodes), rest |-> Tail(nodes)]

\* read_validity: always takes one buffer slot; a bitmap only when the node has nulls,
\* cut to min(limit, declared length).
read_validity(bufs, field_node, lim) ==
    LET length == IF lim.some THEN Min(lim.v, field_node.length) ELSE field_node.length
    IN  IF bufs = <<>>
        THEN [ok |-> FALSE, err |-> "oos", rest |-> bufs]
        ELSE IF field_node.null_count > 0
             THEN IF Len(Head(bufs).data) < length
                  THEN [ok |-> FALSE, err |-> "io", rest |-> Tail(bufs)]
                  ELSE [ok |-> TRUE, validity |-> Some(SubSeq(Head(bufs).data, 1, length)),
                        rest |-> Tail(bufs)]
             ELSE [ok |-> TRUE, validity |-> None, rest |-> Tail(bufs)]

\* The primitive leaf decoder: one node, the validity slot, the values buffer.
read_primitive(nodes, bufs, lim) ==
    LET fnode == try_get_field_node(nodes)
    IN  IF ~fnode.ok
        THEN Result("Err", fnode.err, nodes, bufs, NoArray, <<PopNode(nodes)>>, <<>>)
        ELSE
    LET v == read_validity(bufs, fnode.node, lim)
        t1 == <<PopNode(nodes), PopBuf(bufs)>>
    IN  IF ~v.ok
        THEN Result("Err", v.err, fnode.rest, v.rest, NoArray, t1, <<>>)
        ELSE
    LET length == IF lim.some THEN Min(lim.v, fnode.node.length) ELSE fnode.node.length
        t2 == t1 \o <<PopBuf(v.rest)>>
    IN  IF v.rest = <<>>
        THEN Result("Err", "oos", fnode.rest, v.rest, NoArray, t2, <<>>)
        ELSE IF Len(Head(v.rest).data) < length
        THEN Result("Err", "io", fnode.rest, Tail(v.rest), NoArray, t2, <<>>)
        ELSE Result("Ok", "none", fnode.rest, Tail(v.rest),
                    [kind |-> "prim", len |-> length,
                     values |-> SubSeq(Head(v.rest).data, 1, length),
                     validity |-> v.validity],
                    t2, <<>>)

\* The primitive leaf skip: one node, two buffers.
skip_primitive(nodes, bufs) ==
    IF nodes = <<>>
    THEN Result("Err", "oos", nodes, bufs, NoArray, <<PopNode(nodes)>>, <<>>)
    ELSE IF bufs = <<>>
    THEN Result("Err", "oos", Tail(nodes), bufs, NoArray, <<PopNode(nodes), PopBuf(bufs)>>, <<>>)
    ELSE IF Tail(bufs) = <<>>
    THEN Result("Err", "oos", Tail(nodes), Tail(bufs), NoArray,
                <<PopNode(nodes), PopBuf(bufs), PopBuf(Tail(bufs))>>, <<>>)
    ELSE Result("Ok", "none", Tail(nodes), Tail(Tail(bufs)), NoArray,
                <<PopNode(nodes), PopBuf(bufs), PopBuf(Tail(bufs))>>, <<>>)

\* FixedSizeListArray::try_new(dtype, length, values, validity)
try_new(dtype, length, values, validity) ==
    LET size == get_child_and_size(dtype).size
    IN  IF size > 0 /\ values.len % size # 0 THEN [ok |-> FALSE, err |-> "integrity"]
        ELSE IF size > 0 /\ values.len \div size # length THEN [ok |-> FALSE, err |-> "integrity"]
        ELSE IF validity.some /\ Len(validity.v) # length THEN [ok |-> FALSE, err |-> "integrity"]
        ELSE [ok |-> TRUE,
              arr |-> [kind |-> "fsl", size |-> size, len |-> length,
                       values |-> values, validity |-> validity]]

RECURSIVE read(_, _, _, _)
RECURSIVE skip(_, _, _)

----------------------------------------------------------------------------
(* fixed_size_list.rs *)

\* usize::saturating_mul
saturating_mul(x, size) == IF x * size > UsizeMax THEN UsizeMax ELSE x * size

\* Variants of line 46: a wrapping product; the outer limit handed on unscaled.
child_limit_wrapping(lim, size) ==
    IF lim.some THEN Some((lim.v * size) % (UsizeMax + 1)) ELSE None
child_limit_unscaled(lim, size) == lim

\* line 46: let limit = limit.map(|x| x.saturating_mul(size));
child_limit(lim, size) == IF lim.some THEN Some(saturating_mul(lim.v, size)) ELSE None

\* Variant of line 44: the width is not checked.
ensure_size_unchecked(size) == TRUE

\* line 44: polars_ensure!(size > 0, nyi = ...)
ensure_size(size) == size > 0

\* Variant of line 63: the child's length taken as the list's length.
list_length_undivided(values_len, size) == values_len

\* line 63: values.len() / size
list_length(values_len, size) == values_len \div size

\* Variant of line 63: the array built without try_new's validation.
new_list_unchecked(dtype, size, values, validity) ==
    IF size = 0
    THEN [status |-> "Panic", err |-> "none", arr |-> NoArray]
    ELSE [status |-> "Ok", err |-> "none",
          arr |-> [kind |-> "fsl", size |-> size, len |-> list_length(values.len, size),
                   values |-> values, validity |-> validity]]

\* Variant of line 63: the array built without its validity.
new_list_no_validity(dtype, size, values, validity) ==
    IF size = 0
    THEN [status |-> "Panic", err |-> "none", arr |-> NoArray]
    ELSE LET made == try_new(dtype, list_length(values.len, size), values, None)
         IN  IF made.ok
             THEN [status |-> "Ok", err |-> "none", arr |-> made.arr]
             ELSE [status |-> "Err", err |-> made.err, arr |-> NoArray]

\* line 63: FixedSizeListArray::try_new(dtype, values.len() / size, values, validity);
\* the division panics when size is 0.
new_list(dtype, size, values, validity) ==
    IF size = 0
    THEN [status |-> "Panic", err |-> "none", arr |-> NoArray]
    ELSE LET made == try_new(dtype, list_length(values.len, size), values, validity)
         IN  IF made.ok
             THEN [status |-> "Ok", err |-> "none", arr |-> made.arr]
             ELSE [status |-> "Err", err |-> made.err, arr |-> NoArray]

\* What the activation handed to read_validity and to the child's read.
Call(size, node, vlimit, climit, validity, childOk, childLen) ==
    [size |-> size, node |-> node, vlimit |-> vlimit, climit |-> climit,
     validity |-> validity, childOk |-> childOk, childLen |-> childLen]

read_fixed_size_list(nodes, dtype, bufs, lim) ==
    LET fnode == try_get_field_node(nodes)
    IN  IF ~fnode.ok
        THEN Result("Err", fnode.err, nodes, bufs, NoArray, <<PopNode(nodes)>>, <<>>)
        ELSE
    LET validity == read_validity(bufs, fnode.node, lim)
        t1 == <<PopNode(nodes), PopBuf(bufs)>>
    IN  IF ~validity.ok
        THEN Result("Err", validity.err, fnode.rest, validity.rest, NoArray, t1, <<>>)
        ELSE
    LET cs == get_child_and_size(dtype)
    IN  IF ~ensure_size(cs.size)
        THEN Result("Err", "nyi", fnode.rest, validity.rest, NoArray, t1, <<>>)
        ELSE
    LET limit2 == child_limit(lim, cs.size)
        values == read(fnode.rest, cs.field, validity.rest, limit2)
        t2 == t1 \o values.trace
    IN  IF values.status # "Ok"
        THEN Result(values.status, values.err, values.nodes, values.bufs, NoArray, t2,
                    <<Call(cs.size, fnode.node, lim, limit2, validity.validity, FALSE, 0)>>
                    \o values.calls)
        ELSE
    LET made == new_list(dtype, cs.size, values.arr, validity.validity)
    IN  Result(made.status, made.err, values.nodes, values.bufs, made.arr, t2,
               <<Call(cs.size, fnode.node, lim, limit2, validity.validity, TRUE,
                      values.arr.len)>> \o values.calls)

\* Variants of skip_fixed_size_list: the validity buffer is not popped; the buffer is
\* popped before the node; the child is not skipped; a zero width is rejected; an
\* empty buffer queue ends the skip with Ok.
skip_no_validity(nodes, dtype, bufs) ==
    IF nodes = <<>>
    THEN Result("Err", "oos", nodes, bufs, NoArray, <<PopNode(nodes)>>, <<>>)
    ELSE
    LET rest == skip(Tail(nodes), get_child_and_size(dtype).field, bufs)
    IN  [rest EXCEPT !.trace = <<PopNode(nodes)>> \o rest.trace]

skip_buffer_first(nodes, dtype, bufs) ==
    IF bufs = <<>>
    THEN Result("Err", "oos", nodes, bufs, NoArray, <<PopBuf(bufs)>>, <<>>)
    ELSE IF nodes = <<>>
    THEN Result("Err", "oos", nodes, Tail(bufs), NoArray,
                <<PopBuf(bufs), PopNode(nodes)>>, <<>>)
    ELSE
    LET rest == skip(Tail(nodes), get_child_and_size(dtype).field, Tail(bufs))
    IN  [rest EXCEPT !.trace = <<PopBuf(bufs), PopNode(nodes)>> \o rest.trace]

skip_no_child(nodes, dtype, bufs) ==
    IF nodes = <<>>
    THEN Result("Err", "oos", nodes, bufs, NoArray, <<PopNode(nodes)>>, <<>>)
    ELSE IF bufs = <<>>
    THEN Result("Err", "oos", Tail(nodes), bufs, NoArray,
                <<PopNode(nodes), PopBuf(bufs)>>, <<>>)
    ELSE Result("Ok", "none", Tail(nodes), Tail(bufs), NoArray,
                <<PopNode(nodes), PopBuf(bufs)>>, <<>>)

skip_rejects_zero(nodes, dtype, bufs) ==
    IF nodes = <<>>
    THEN Result("Err", "oos", nodes, bufs, NoArray, <<PopNode(nodes)>>, <<>>)
    ELSE IF bufs = <<>>
    THEN Result("Err", "oos", Tail(nodes), bufs, NoArray,
                <<PopNode(nodes), PopBuf(bufs)>>, <<>>)
    ELSE IF get_child_and_size(dtype).size = 0
    THEN Result("Err", "nyi", Tail(nodes), Tail(bufs), NoArray,
                <<PopNode(nodes), PopBuf(bufs)>>, <<>>)
    ELSE
    LET rest == skip(Tail(nodes), get_child_and_size(dtype).field, Tail(bufs))
    IN  [rest EXCEPT !.trace = <<PopNode(nodes), PopBuf(bufs)>> \o rest.trace]

skip_empty_is_end(nodes, dtype, bufs) ==
    IF nodes = <<>>
    THEN Result("Err", "oos", nodes, bufs, NoArray, <<PopNode(nodes)>>, <<>>)
    ELSE IF bufs = <<>>
    THEN Result("Ok", "none", Tail(nodes), bufs, NoArray,
                <<PopNode(nodes), PopBuf(bufs)>>, <<>>)
    ELSE
    LET rest == skip(Tail(nodes), get_child_and_size(dtype).field, Tail(bufs))
    IN  [rest EXCEPT !.trace = <<PopNode(nodes), PopBuf(bufs)>> \o rest.trace]

skip_fixed_size_list(nodes, dtype, bufs) ==
    IF nodes = <<>>
    THEN Result("Err", "oos", nodes, bufs, NoArray, <<PopNode(nodes)>>, <<>>)
    ELSE IF bufs = <<>>
    THEN Result("Err", "oos", Tail(nodes), bufs, NoArray,
                <<PopNode(nodes), PopBuf(bufs)>>, <<>>)
    ELSE
    LET cs == get_child_and_size(dtype)
        rest == skip(Tail(nodes), cs.field, Tail(bufs))
    IN  [rest EXCEPT !.trace = <<PopNode(nodes), PopBuf(bufs)>> \o rest.trace]

----------------------------------------------------------------------------
(* The dispatchers over the logical type (deserialize.rs). *)

read(nodes, dtype, bufs, lim) ==
    IF dtype.kind = "fsl"
    THEN read_fixed_size_list(nodes, dtype, bufs, lim)
    ELSE read_primitive(nodes, bufs, lim)

skip(nodes, dtype, bufs) ==
    IF dtype.kind = "fsl"
    THEN skip_fixed_size_list(nodes, dtype, bufs)
    ELSE skip_primitive(nodes, bufs)

----------------------------------------------------------------------------
(* The record batch: a fixed-size-list column followed by a primitive      *)
(* sibling; each column is decoded or skipped, in order.                   *)

SiblingLen == 1

Limits == {None} \cup {Some(n) : n \in 0..(MaxLen + 1)}
                 \cup {Some(UsizeMax \div 2 + 1), Some(UsizeMax)}

\* How the queues differ from the writer's: not at all; the last k nodes or the last k
\* buffers of the batch are missing; the top node declares one row more; the leaf
\* holds one element more; the top validity bitmap is one bit short.
Damages(dtype) ==
    {[k |-> "none", n |-> 0]}
    \cup {[k |-> "dropNodes", n |-> n] : n \in 1..(NodesOf(dtype) + 1)}
    \cup {[k |-> "dropBufs", n |-> n] : n \in 1..(BuffersOf(dtype) + 2)}
    \cup {[k |-> "declareMore", n |-> 1], [k |-> "leafMore", n |-> 1],
          [k |-> "shortValidity", n |-> 1]}

Batch(dtype, length, nulls, damage) ==
    LET a0 == Encode(1, 0, dtype, length, nulls, IF damage.k = "leafMore" THEN damage.n ELSE 0)
        a  == DeclareMore(a0, IF damage.k = "declareMore" THEN damage.n ELSE 0)
        b  == Encode(2, 0, Int32, SiblingLen, FALSE, 0)
        v  == a.bufs[1]
        a2 == IF damage.k = "shortValidity"
              THEN <<[v EXCEPT !.data = DropLast(v.data, damage.n)]>> \o Tail(a.bufs)
              ELSE a.bufs
    IN  [nodes |-> DropLast(a.nodes \o b.nodes, IF damage.k = "dropNodes" THEN damage.n ELSE 0),
         bufs  |-> DropLast(a2 \o b.bufs, IF damage.k = "dropBufs" THEN damage.n ELSE 0)]

NoCall == [op |-> "none", col |-> 0]

Init ==
    \E dtype \in ListTypes, length \in 0..MaxLen, nulls \in BOOLEAN :
    \E damage \in Damages(dtype) :
    \E lim \in Limits :
        /\ schema = <<dtype, Int32>>
        /\ field_nodes = Batch(dtype, length, nulls, damage).nodes
        /\ buffers = Batch(dtype, length, nulls, damage).bufs
        /\ limit = lim
        /\ col = 1
        /\ pc = "run"
        /\ input = [length |-> length, nulls |-> nulls, damage |-> damage]
        /\ last = NoCall
        /\ file = None /\ rd = None /\ log = None /\ out = None
        /\ source = None /\ tasks = None
        /\ uri = None /\ parts = None
        /\ HubIdle /\ TopKIdle

\* After a call: the queues are as the call left them; an error aborts the batch.
Finish(op, r) ==
    /\ field_nodes' = r.nodes
    /\ buffers' = r.bufs
    /\ last' = [op |-> op, col |-> col, nodes0 |-> field_nodes, bufs0 |-> buffers, res |-> r]
    /\ col' = IF r.status = "Ok" THEN col + 1 ELSE col
    /\ pc' = IF r.status # "Ok" THEN "failed"
             ELSE IF col = Len(schema) THEN "done" ELSE "run"
    /\ UNCHANGED <<schema, limit, input>>
    /\ UNCHANGED <<readerVars, taskVars, pathVars, hubVars, topk>>

\* The projected column col is decoded.
ReadColumn ==
    /\ pc = "run"
    /\ Finish("read", read(field_nodes, schema[col], buffers, limit))

\* The column col is not projected: it is skipped.
SkipColumn ==
    /\ pc = "run"
    /\ Finish("skip", skip(field_nodes, schema[col], buffers))

Next == ReadColumn \/ SkipColumn

Spec == Init /\ [][Next]_vars

----------------------------------------------------------------------------
(* Properties. *)

\* The last call was `op` on the fixed-size-list column.
OnList(op) == last.op = op /\ last.col = 1
Called == last.op # "none"

CalledType == schema[last.col]
PoppedNodes == Len(last.nodes0) - Len(last.res.nodes)
PoppedBuffers == Len(last.bufs0) - Len(last.res.bufs)

\* The queues held every entry of the called type's encoding.
HeldAll == /\ Len(last.nodes0) >= NodesOf(CalledType)
           /\ Len(last.bufs0) >= BuffersOf(CalledType)

\* C1: a skip of the fixed-size-list column (1, 2 or 3 lists deep) leaves both queues
\* exactly as a successful decode of the same column from the same queues leaves them,
\* having removed one node per level and one buffer per level plus the leaf's values.
C1_SkipAlignsWithDecode ==
    OnList("skip") =>
        LET r == read_fixed_size_list(last.nodes0, schema[1], last.bufs0, limit)
        IN  r.status = "Ok" =>
                /\ last.res.status = "Ok"
                /\ last.res.nodes = r.nodes
                /\ last.res.bufs = r.bufs
                /\ PoppedNodes = NodesOf(schema[1])
                /\ PoppedBuffers = BuffersOf(schema[1])

\* A three-deep column was skipped where a decode succeeds, and the sibling's entries
\* are now at the head of both queues.
C1_Witness ==
    /\ OnList("skip")
    /\ Depth(schema[1]) = 3
    /\ input.length = 2
    /\ read_fixed_size_list(last.nodes0, schema[1], last.bufs0, limit).status = "Ok"
    /\ last.res.status = "Ok"
    /\ Len(field_nodes) = 1 /\ Head(field_nodes).owner = <<2, 0>>
    /\ Len(buffers) = 2 /\ Head(buffers).owner = <<2, 0>>

\* C2 as claimed: every call, failed ones included, removes what a successful decode of
\* the type removes (stated for the nodes of a skip whose node queue held every node of
\* the type).
C2_AsClaimed ==
    (OnList("skip") /\ Len(last.nodes0) >= NodesOf(schema[1])) =>
        PoppedNodes = NodesOf(schema[1])

\* C2 amended: a call that returns Ok has removed exactly the entries of the type's
\* encoding from each queue; a call that fails has removed at most that many, and its
\* last pop is the step it failed at or before.
C2_OkConsumesAllErrAtMost ==
    Called =>
        /\ last.res.status = "Ok" =>
              /\ PoppedNodes = NodesOf(CalledType)
              /\ PoppedBuffers = BuffersOf(CalledType)
        /\ last.res.status # "Ok" =>
              /\ PoppedNodes <= NodesOf(CalledType)
              /\ PoppedBuffers <= BuffersOf(CalledType)
        /\ last.res.nodes = SubSeq(last.nodes0, PoppedNodes + 1, Len(last.nodes0))
        /\ last.res.bufs = SubSeq(last.bufs0, PoppedBuffers + 1, Len(last.bufs0))

\* Both outcomes happen on full queues: a skip that removed a three-deep column whole,
\* and a decode that failed having removed one node and one buffer of it.
C2_Witness ==
    /\ OnList("skip")
    /\ Depth(schema[1]) = 3
    /\ last.res.status = "Ok"
    /\ PoppedNodes = 4 /\ PoppedBuffers = 5

C2_WitnessErr ==
    /\ OnList("read")
    /\ HeldAll /\ AllSizesPositive(schema[1])
    /\ last.res.status = "Err"
    /\ PoppedNodes = 1 /\ PoppedBuffers = 1

\* C3 as claimed: a decode with width 0 fails with the not-yet-implemented error
\* whatever the queues hold.
C3_AsClaimed ==
    (OnList("read") /\ schema[1].size = 0) =>
        last.res.status = "Err" /\ last.res.err = "nyi"

\* C3 amended: a decode with width 0 never returns an array and always returns an
\* error; the error is not-yet-implemented when the node and the validity slot of the
\* list could be read (one node and one buffer are then gone), and the corruption error
\* when the node queue or the buffer queue is empty.
C3_ZeroWidthFails ==
    (OnList("read") /\ schema[1].size = 0) =>
        /\ last.res.status = "Err"
        /\ last.res.arr = NoArray
        /\ (last.nodes0 = <<>> \/ last.bufs0 = <<>>) => last.res.err = "oos"
        /\ (last.nodes0 # <<>> /\ last.bufs0 # <<>> /\ last.res.err # "io") =>
              /\ last.res.err = "nyi"
              /\ PoppedNodes = 1 /\ PoppedBuffers = 1

C3_Witness ==
    /\ OnList("read") /\ schema[1].size = 0
    /\ input.damage.k = "none"
    /\ last.res.err = "nyi"

C3_WitnessEmpty ==
    /\ OnList("read") /\ schema[1].size = 0
    /\ last.nodes0 = <<>>
    /\ last.res.err = "oos"

\* C4 as claimed: a skip with width 0 is rejected with the not-yet-implemented error.
C4_AsClaimed ==
    (OnList("skip") /\ schema[1].size = 0) =>
        last.res.status = "Err" /\ last.res.err = "nyi"

\* C4 amended: skip_fixed_size_list does not look at the width: it never returns the
\* not-yet-implemented error, and a skip with width 0 gives the result (status, error,
\* queues) of the same skip with width 1: Ok when the queues hold the entries.
C4_SkipIgnoresWidth ==
    OnList("skip") =>
        /\ last.res.err # "nyi"
        /\ schema[1].size = 0 =>
              /\ last.res = skip_fixed_size_list(last.nodes0,
                                                 [schema[1] EXCEPT !.size = 1], last.bufs0)
              /\ HeldAll => last.res.status = "Ok"

C4_Witness ==
    /\ OnList("skip") /\ schema[1].size = 0
    /\ last.res.status = "Ok"
    /\ PoppedNodes = NodesOf(schema[1])

\* A pop of the call found its queue empty.
HitEmpty == \E i \in 1..Len(last.res.trace) : last.res.trace[i].owner = NoOwner

\* C5: a decode or skip that pops an empty node or buffer queue, at any depth, returns
\* the corruption error and no array; no call panics; and a call whose queues are short
\* of the type's entries never returns Ok (when all widths are > 0, or for a skip, it
\* returns the corruption error).
C5_EmptyQueueIsCorruption ==
    Called =>
        /\ last.res.status # "Panic"
        /\ HitEmpty => last.res.status = "Err" /\ last.res.err = "oos"
                       /\ last.res.arr = NoArray
        /\ ~HeldAll =>
              /\ last.res.status = "Err" /\ last.res.arr = NoArray
              /\ (last.op = "skip" \/ AllSizesPositive(CalledType)) => last.res.err = "oos"

\* The fixed-size-list column is exactly one buffer short and decoding finds out at the
\* leaf, two lists down.
C5_Witness ==
    /\ OnList("read")
    /\ Depth(schema[1]) = 2
    /\ Len(last.bufs0) = BuffersOf(schema[1]) - 1
    /\ Len(last.nodes0) >= NodesOf(schema[1])
    /\ HitEmpty
    /\ last.res.err = "oos"

C5_WitnessSkip ==
    /\ OnList("skip")
    /\ Len(last.bufs0) = 0
    /\ Len(last.nodes0) >= NodesOf(schema[1])
    /\ last.res.err = "oos"

\* The limit a chain of saturating products hands to nesting level i (1 is the column).
ExpectedScaled(lim, size) == IF lim.some THEN Some(Min(lim.v * size, UsizeMax)) ELSE None

RECURSIVE ExpectedLimit(_, _, _)
ExpectedLimit(dtype, lim, i) ==
    IF i = 1 THEN lim
    ELSE ExpectedLimit(dtype.child, ExpectedScaled(lim, dtype.size), i - 1)

\* C6: at every nesting level the validity bitmap is read with the limit the level was
\* called with, and the child is decoded with None when that limit is None and with
\* min(limit * size, usize::MAX) otherwise.
C6_ChildLimitSaturates ==
    OnList("read") =>
        \A i \in 1..Len(last.res.calls) :
            LET c == last.res.calls[i]
            IN  /\ c.vlimit = ExpectedLimit(schema[1], limit, i)
                /\ c.climit = ExpectedScaled(c.vlimit, c.size)

\* A limit above usize::MAX / 2 and a width of 2: the child's limit is usize::MAX.
C6_Witness ==
    /\ OnList("read")
    /\ limit = Some(UsizeMax \div 2 + 1)
    /\ schema[1].size = 2
    /\ last.res.status = "Ok"
    /\ last.res.calls[1].vlimit = limit
    /\ last.res.calls[1].climit = Some(UsizeMax)

\* The writer's queues, all widths > 0.
WellFormed == input.damage.k = "none" /\ AllSizesPositive(schema[1])

\* C7: decoding the writer's encoding of a column of n rows and width w > 0 without a
\* limit succeeds and returns n rows over a child of n * w elements, at every nesting
\* level.
C7_DecodedLengths ==
    (OnList("read") /\ WellFormed /\ ~limit.some) =>
        /\ last.res.status = "Ok"
        /\ last.res.arr.len = input.length
        /\ last.res.arr.values.len = input.length * schema[1].size
        /\ \A i \in 1..Len(last.res.calls) :
              LET c == last.res.calls[i]
              IN  c.childOk /\ c.childLen = c.node.length * c.size

C7_Witness ==
    /\ OnList("read") /\ WellFormed /\ ~limit.some
    /\ Depth(schema[1]) = 2
    /\ schema[1].size = 2
    /\ input.length = 2
    /\ last.res.status = "Ok"
    /\ last.res.arr.len = 2
    /\ last.res.arr.values.len = 4

C8_WitnessUndeclared ==
    /\ OnList("read")
    /\ input.damage.k = "declareMore"
    /\ ~limit.some
    /\ last.res.status = "Ok"
    /\ last.res.arr.len = input.length
    /\ last.nodes0[1].length = input.length + 1

\* The first n rows of an array.
RECURSIVE Sliced(_, _)
Sliced(arr, n) ==
    LET len == Min(n, arr.len)
        validity == IF arr.validity.some
                    THEN Some(SubSeq(arr.validity.v, 1, len)) ELSE None
    IN  IF arr.kind = "fsl"
        THEN [kind |-> "fsl", size |-> arr.size, len |-> len,
              values |-> Sliced(arr.values, len * arr.size), validity |-> validity]
        ELSE [kind |-> "prim", len |-> len, values |-> SubSeq(arr.values, 1, len),
              validity |-> validity]

\* C9: decoding the writer's encoding (all widths > 0) with limit L succeeds and
\* returns the array that decoding the same queues without limit returns, cut to its
\* first L rows: same lengths, values and validity at every level; the queues are left
\* the same.
C9_LimitIsTruncation ==
    (OnList("read") /\ WellFormed /\ limit.some) =>
        LET full == read_fixed_size_list(last.nodes0, schema[1], last.bufs0, None)
        IN  /\ full.status = "Ok"
            /\ last.res.status = "Ok"
            /\ last.res.arr = Sliced(full.arr, limit.v)
            /\ last.res.nodes = full.nodes
            /\ last.res.bufs = full.bufs

\* Two rows of width 2, the first null, decoded with limit 1: one row <<1, 2>>.
C9_Witness ==
    /\ OnList("read") /\ WellFormed
    /\ limit = Some(1)
    /\ schema[1] = FixedSizeList(Int32, 2)
    /\ input.length = 2 /\ input.nulls
    /\ last.res.status = "Ok"
    /\ last.res.arr.len = 1
    /\ last.res.arr.validity = Some(<<0>>)
    /\ last.res.arr.values.values = <<1, 2>>

\* The pops of the last call that found an entry.
Pops == SelectSeq(last.res.trace, LAMBDA e : e.owner # NoOwner)
PopsOf(q, lvl) ==
    {i \in 1..Len(Pops) : Pops[i].q = q /\ Pops[i].owner = <<last.col, lvl>>}

\* C10: the pops of a call follow the writer's pre-order: every popped entry belongs to
\* the called column, the entries of a level are popped before those of the level
\* below it, and a buffer only after the node of its level; a call that returns Ok has
\* popped each node of the type once, each list level's validity buffer once and the
\* leaf's two buffers.
C10_PreOrderPops ==
    Called =>
        /\ \A i \in 1..Len(Pops) : Pops[i].owner[1] = last.col
        /\ \A i, j \in 1..Len(Pops) : i < j => Pops[i].owner[2] <= Pops[j].owner[2]
        /\ \A j \in 1..Len(Pops) :
              Pops[j].q = "buf" =>
                  \E i \in 1..(j - 1) : Pops[i].q = "node" /\ Pops[i].owner = Pops[j].owner
        /\ last.res.status = "Ok" =>
              \A lvl \in 0..Depth(CalledType) :
                  /\ Cardinality(PopsOf("node", lvl)) = 1
                  /\ Cardinality(PopsOf("buf", lvl)) =
                        IF lvl = Depth(CalledType) THEN 2 ELSE 1

C10_Witness ==
    /\ OnList("skip")
    /\ Depth(schema[1]) = 3
    /\ last.res.status = "Ok"
    /\ Len(Pops) = 9
    /\ Pops[1] = [q |-> "node", owner |-> <<1, 0>>]
    /\ Pops[2] = [q |-> "buf", owner |-> <<1, 0>>]
    /\ Pops[3] = [q |-> "node", owner |-> <<1, 1>>]

C10_WitnessRead ==
    /\ OnList("read")
    /\ Depth(schema[1]) = 3
    /\ last.res.status = "Ok"
    /\ Len(Pops) = 9

----------------------------------------------------------------------------
(* IpcReader (crates/polars-io/src/ipc/ipc_file.rs).                       *)
(*                                                                         *)
(* rd holds the fields of the reader, file the source it was opened on.    *)
(* log counts what a call did to the source and lists what it printed;     *)
(* out is the result of the call that consumed the reader.  The functions  *)
(* of other files (read_file_metadata, get_row_count, finish_memmapped,    *)
(* columns_to_projection, apply_projection, FileReader, finish_reader,     *)
(* materialize_hive_partitions) are modelled from the specification.       *)
(* rechunk is handed to finish_reader and changes no height or column.     *)
(***************************************************************************)

\* Files hold 0..MaxRows rows.
MaxRows == 2
\* schema() and custom_metadata() are called while fewer than MaxMetaReads
\* reads of the metadata were made.
MaxMetaReads == 2

PolarsError(kind, msg) == [kind |-> kind, msg |-> msg]
Ok(v) == [ok |-> TRUE, v |-> v]
Err(e) == [ok |-> FALSE, err |-> e]

CompressedMsg == "memory_map can only be done on uncompressed IPC files"
CompressedErr == PolarsError("ComputeError", CompressedMsg)
FallbackWarning == "Could not memory_map compressed IPC file, defaulting to normal read. Toggle off 'memory_map' to silence this warning."
VerboseNote == "memory map ipc file"
OutOfSpec == PolarsError("ComputeError", "out-of-spec")

\* The columns of every file of the model.
FileSchema == <<"a", "b">>

\* Failures of a memory map attempt other than the compressed-file one.
Faults ==
    { PolarsError("ComputeError", "mmap failed"),
      PolarsError("IO", "mmap failed"),
      PolarsError("IO", CompressedMsg) }

Files ==
    { f \in [rows : 0..MaxRows, readable : BOOLEAN, compressed : BOOLEAN,
             is_file : BOOLEAN, fault : {None} \cup {Some(e) : e \in Faults}] :
        f.fault.some => (f.is_file /\ ~f.compressed) }

NRowsChoices == {None} \cup {Some(n) : n \in 0..(MaxRows + 1)}
ProjectionChoices == {None, Some(<<>>), Some(<<1>>)}
ColumnsChoices == {None, Some(<<"b">>), Some(<<"zz">>)}
HiveChoices == {None, Some(<<"h">>)}
FilePathChoices == {None, Some([name |-> "path", value |-> "f.ipc"])}
RowIndexChoices == {None, Some("idx")}
MemoryMapChoices == {None, Some("f.ipc")}
PredicateChoices == {None, Some("odd rows")}

\* SerReader::new
IpcReaderNew ==
    [n_rows |-> None, columns |-> None, hive_partition_columns |-> None,
     include_file_path |-> None, projection |-> None, row_index |-> None,
     memory_map |-> None, metadata |-> None, schema |-> None]

Log0 ==
    [meta_reads |-> 0, row_counts |-> 0, mmap_tries |-> 0, mmap_err |-> None,
     stream_runs |-> 0, reader |-> None, diags |-> <<>>]

NoOut == [op |-> "none"]

\* What a method leaves behind: the reader, the log, its return value.
Ret(r, l, res) == [rd |-> r, log |-> l, res |-> res]

eprintln(l, msg) == [l EXCEPT !.diags = Append(@, msg)]

(* Callees outside ipc_file.rs. *)

read_file_metadata ==
    IF file.readable
    THEN Ok([schema |-> FileSchema, custom_metadata |-> None])
    ELSE Err(OutOfSpec)

get_row_count == IF file.readable THEN Ok(file.rows) ELSE Err(OutOfSpec)

IndexOf(name, names) == CHOOSE i \in 1..Len(names) : names[i] = name

columns_to_projection(columns, sch) ==
    IF \A i \in 1..Len(columns) : \E j \in 1..Len(sch) : sch[j] = columns[i]
    THEN Ok([i \in 1..Len(columns) |-> IndexOf(columns[i], sch) - 1])
    ELSE Err(PolarsError("ColumnNotFound", "zz"))

apply_projection(sch, projection) ==
    [i \in 1..Len(projection) |-> sch[projection[i] + 1]]

\* A column of a frame: its name, where it comes from, its length, and its
\* value when it is a scalar column.
Column(name, kind, len) == [name |-> name, kind |-> kind, len |-> len, value |-> None]

empty_with_height(h) == [height |-> h, columns |-> <<>>]

with_row_index_mut(df, name) ==
    [df EXCEPT !.columns = <<Column(name, "row_index", df.height)>> \o @]

FileReader_new(metadata, projection, lim) ==
    [metadata |-> metadata, projection |-> projection, limit |-> lim]

\* The batches of the reader, cut at its limit and at n_rows, filtered by the
\* predicate, with the row index in front.
finish_reader(reader, n_rows, predicate, sch, row_index) ==
    LET r1 == IF reader.limit.some THEN Min(reader.limit.v, file.rows) ELSE file.rows
        r2 == IF n_rows.some THEN Min(n_rows.v, r1) ELSE r1
        h  == IF predicate.some THEN (r2 + 1) \div 2 ELSE r2
        df == [height |-> h, columns |-> [i \in 1..Len(sch) |-> Column(sch[i], "data", h)]]
    IN  IF row_index.some THEN with_row_index_mut(df, row_index.v) ELSE df

\* mmap.rs: maps the file and reads it without copying; refuses a compressed file.
finish_memmapped(r, predicate) ==
    IF file.compressed THEN Err(CompressedErr)
    ELSE IF file.fault.some THEN Err(file.fault.v)
    ELSE LET m == read_file_metadata
             p == IF r.columns.some THEN columns_to_projection(r.columns.v, FileSchema)
                  ELSE Ok(0)
             projection == IF r.columns.some THEN Some(p.v) ELSE r.projection
         IN  IF ~m.ok THEN m
             ELSE IF ~p.ok THEN p
             ELSE LET sch == IF projection.some THEN apply_projection(m.v.schema, projection.v)
                             ELSE m.v.schema
                  IN  Ok(finish_reader(FileReader_new(m.v, projection, None), r.n_rows,
                                       predicate, sch, r.row_index))

materialize_hive_partitions(df, hive_cols) ==
    [df EXCEPT !.columns =
        @ \o [i \in 1..Len(hive_cols) |-> Column(hive_cols[i], "hive", df.height)]]

new_scalar(name, value, len) ==
    [name |-> name, kind |-> "scalar", len |-> len, value |-> Some(value)]

(* ipc_file.rs *)

can_memory_map_any_source(r) == r.memory_map.some

check_mmap_err_silent(err, l) ==
    IF err.kind = "ComputeError" /\ err.msg = CompressedMsg
    THEN [log |-> l, res |-> Ok(<<>>)]
    ELSE [log |-> l, res |-> Err(err)]

check_mmap_err_any_compute(err, l) ==
    IF err.kind = "ComputeError"
    THEN [log |-> [l EXCEPT !.diags = Append(@, FallbackWarning)], res |-> Ok(<<>>)]
    ELSE [log |-> l, res |-> Err(err)]

\* self.memory_map.is_some() && self.reader.to_file().is_some()
can_memory_map(r) == r.memory_map.some /\ file.is_file

check_mmap_err(err, l) ==
    IF err.kind = "ComputeError" /\ err.msg = CompressedMsg
    THEN [log |-> eprintln(l, FallbackWarning), res |-> Ok(<<>>)]
    ELSE [log |-> l, res |-> Err(err)]

get_metadata(r, l) ==
    IF ~r.metadata.some
    THEN LET m  == read_file_metadata
             l1 == [l EXCEPT !.meta_reads = @ + 1]
         IN  IF m.ok
             THEN Ret([r EXCEPT !.schema = Some(m.v.schema), !.metadata = Some(m.v)], l1, m)
             ELSE Ret(r, l1, m)
    ELSE Ret(r, l, Ok(r.metadata.v))

empty_projection_uncapped(r, l) ==
    LET c == get_row_count
    IN  IF ~c.ok THEN [rd |-> r, log |-> l, res |-> c]
        ELSE [rd |-> r, log |-> l, res |-> Ok([height |-> c.v, columns |-> <<>>])]

\* finish, lines 263-276: the projection is present and empty.
empty_projection(r, l) ==
    LET c  == IF r.n_rows.some THEN Ok(r.n_rows.v) ELSE get_row_count
        l1 == IF r.n_rows.some THEN l ELSE [l EXCEPT !.row_counts = @ + 1]
    IN  IF ~c.ok THEN Ret(r, l1, c)
        ELSE LET df == empty_with_height(c.v)
             IN  Ret(r, l1, Ok(IF r.row_index.some THEN with_row_index_mut(df, r.row_index.v)
                               ELSE df))

\* finish, lines 286-305: the streaming reader.
streaming(r, l) ==
    LET l1 == [l EXCEPT !.stream_runs = @ + 1]
        g  == get_metadata(r, l1)
        p  == IF g.rd.columns.some
              THEN columns_to_projection(g.rd.columns.v, g.res.v.schema)
              ELSE Ok(0)
    IN  IF ~g.res.ok THEN g
        ELSE IF ~p.ok THEN Ret(g.rd, g.log, p)
        ELSE LET r2  == IF g.rd.columns.some THEN [g.rd EXCEPT !.projection = Some(p.v)]
                        ELSE g.rd
                 sch == IF r2.projection.some
                        THEN apply_projection(g.res.v.schema, r2.projection.v)
                        ELSE g.res.v.schema
                 g2  == get_metadata(r2, g.log)
                 reader == FileReader_new(g2.res.v, r2.projection, r2.n_rows)
             IN  Ret(g2.rd, [g2.log EXCEPT !.reader = Some(reader)],
                     Ok(finish_reader(reader, None, None, sch, r2.row_index)))

\* finish, lines 263-306: the closure that assembles the frame.
read_frame(r, l) ==
    IF r.projection.some /\ r.projection.v = <<>>
    THEN empty_projection(r, l)
    ELSE IF can_memory_map(r)
    THEN LET m  == finish_memmapped(r, None)
             l1 == [l EXCEPT !.mmap_tries = @ + 1,
                             !.mmap_err = IF m.ok THEN None ELSE Some(m.err)]
             c  == check_mmap_err(m.err, l1)
         IN  IF m.ok THEN Ret(r, l1, m)
             ELSE IF ~c.res.ok THEN Ret(r, c.log, c.res)
             ELSE streaming(r, c.log)
    ELSE streaming(r, l)

post_process_no_path(df, hive_cols, include_file_path) ==
    IF hive_cols.some THEN materialize_hive_partitions(df, hive_cols.v) ELSE df

\* finish, lines 308-323: the columns added to the assembled frame.
post_process(df, hive_cols, include_file_path) ==
    LET d1 == IF hive_cols.some THEN materialize_hive_partitions(df, hive_cols.v) ELSE df
    IN  IF include_file_path.some
        THEN [d1 EXCEPT !.columns =
                 Append(@, new_scalar(include_file_path.v.name, include_file_path.v.value,
                                      d1.height))]
        ELSE d1

finish(r0, l0) ==
    LET s  == IF r0.schema.some THEN Ret(r0, l0, Ok(r0.schema.v)) ELSE get_metadata(r0, l0)
        r1 == [s.rd EXCEPT !.hive_partition_columns = None, !.include_file_path = None]
        f  == read_frame(r1, s.log)
    IN  IF ~s.res.ok THEN s
        ELSE IF ~f.res.ok THEN f
        ELSE Ret(f.rd, f.log,
                 Ok(post_process(f.res.v, s.rd.hive_partition_columns, s.rd.include_file_path)))

finish_with_scan_ops(r, l, predicate, verbose) ==
    LET try == can_memory_map(r)
        l0  == IF try /\ verbose THEN eprintln(l, VerboseNote) ELSE l
        m   == finish_memmapped(r, predicate)
        l1  == IF try
               THEN [l0 EXCEPT !.mmap_tries = @ + 1,
                               !.mmap_err = IF m.ok THEN None ELSE Some(m.err)]
               ELSE l0
        c   == check_mmap_err(m.err, l1)
        l2  == [(IF try THEN c.log ELSE l1) EXCEPT !.stream_runs = @ + 1, !.meta_reads = @ + 1]
        md  == read_file_metadata
        p   == IF r.columns.some THEN columns_to_projection(r.columns.v, md.v.schema)
               ELSE Ok(0)
    IN  IF try /\ m.ok THEN Ret(r, l1, m)
        ELSE IF try /\ ~c.res.ok THEN Ret(r, c.log, c.res)
        ELSE IF ~md.ok THEN Ret(r, l2, md)
        ELSE IF ~p.ok THEN Ret(r, l2, p)
        ELSE LET r2  == IF r.columns.some THEN [r EXCEPT !.projection = Some(p.v)] ELSE r
                 sch == IF r2.projection.some
                        THEN apply_projection(md.v.schema, r2.projection.v)
                        ELSE md.v.schema
                 reader == FileReader_new(md.v, r2.projection, r2.n_rows)
             IN  Ret(r2, [l2 EXCEPT !.reader = Some(reader)],
                     Ok(finish_reader(reader, None, predicate, sch, r2.row_index)))

(* The calls on a reader. *)

Open == out = NoOut

\* No batch is being decoded while a reader is studied.
DecoderIdle ==
    /\ schema = <<>> /\ field_nodes = <<>> /\ buffers = <<>> /\ limit = None
    /\ col = 0 /\ pc = "idle" /\ input = None /\ last = NoCall

\* No concurrent decode calls, no path to parse.
OthersIdle ==
    /\ source = None /\ tasks = None /\ uri = None /\ parts = None
    /\ HubIdle /\ TopKIdle

InitIpc ==
    /\ DecoderIdle
    /\ OthersIdle
    /\ file \in Files
    /\ rd = IpcReaderNew
    /\ log = Log0
    /\ out = NoOut

with_n_rows ==
    \E n \in NRowsChoices : rd' = [rd EXCEPT !.n_rows = n]

with_columns ==
    \E c \in ColumnsChoices : rd' = [rd EXCEPT !.columns = c]

with_hive_partition_columns ==
    \E c \in HiveChoices : rd' = [rd EXCEPT !.hive_partition_columns = c]

with_include_file_path ==
    \E c \in FilePathChoices : rd' = [rd EXCEPT !.include_file_path = c]

with_row_index ==
    \E c \in RowIndexChoices : rd' = [rd EXCEPT !.row_index = c]

with_projection ==
    \E p \in ProjectionChoices : rd' = [rd EXCEPT !.projection = p]

memory_mapped ==
    \E p \in MemoryMapChoices : rd' = [rd EXCEPT !.memory_map = p]

\* One of the builder methods.
Configure ==
    /\ Open
    /\ \/ with_n_rows
       \/ with_columns
       \/ with_hive_partition_columns
       \/ with_include_file_path
       \/ with_row_index
       \/ with_projection
       \/ memory_mapped
    /\ UNCHANGED <<file, log, out>>
    /\ UNCHANGED <<decoderVars, taskVars, pathVars, hubVars, topk>>

\* schema() and custom_metadata(): both go through get_metadata.
Query ==
    /\ log.meta_reads < MaxMetaReads
    /\ rd' = get_metadata(rd, log).rd
    /\ log' = get_metadata(rd, log).log
    /\ UNCHANGED <<file, out>>
    /\ UNCHANGED <<decoderVars, taskVars, pathVars, hubVars, topk>>

SchemaCall ==
    /\ Open
    /\ Query

CustomMetadataCall ==
    /\ Open
    /\ Query

\* A call that consumes the reader.
Consume(op, args, ret) ==
    /\ out' = [op |-> op, args |-> args, rd0 |-> rd, log0 |-> log, res |-> ret.res]
    /\ rd' = ret.rd
    /\ log' = ret.log
    /\ UNCHANGED file
    /\ UNCHANGED <<decoderVars, taskVars, pathVars, hubVars, topk>>

FinishCall ==
    /\ Open
    /\ Consume("finish", <<>>, finish(rd, log))

FinishWithScanOpsCall ==
    /\ Open
    /\ \E predicate \in PredicateChoices, verbose \in BOOLEAN :
          Consume("finish_with_scan_ops", [predicate |-> predicate, verbose |-> verbose],
                  finish_with_scan_ops(rd, log, predicate, verbose))

NextIpc ==
    \/ Configure
    \/ SchemaCall
    \/ CustomMetadataCall
    \/ FinishCall
    \/ FinishWithScanOpsCall

SpecIpc == InitIpc /\ [][NextIpc]_vars

----------------------------------------------------------------------------
(* Properties of the IpcReader. *)

\* The call that consumed the reader.
Finished(op) == out.op = op

\* C11: on a reader whose metadata is cached, no call reads the metadata from
\* the source again: a readable file is read at most once, and the call that
\* consumes a reader with a filled cache makes no metadata read.
C11_AsClaimed ==
    /\ file.readable => log.meta_reads <= 1
    /\ (~Open /\ out.rd0.metadata.some) => log.meta_reads = out.log0.meta_reads

\* finish keeps to the cache: after schema(), finish reads no metadata.
C11_FinishUsesCache ==
    (Finished("finish") /\ out.rd0.metadata.some) => log.meta_reads = out.log0.meta_reads

\* schema() filled the cache, and finish_with_scan_ops read the metadata again.
C11_Witness ==
    /\ Finished("finish_with_scan_ops") /\ out.rd0.metadata.some
    /\ out.log0.meta_reads = 1 /\ log.meta_reads = 2
    /\ out.res.ok

\* finish returned from the empty-projection branch: no read strategy ran.
ShortCircuit ==
    /\ Finished("finish") /\ out.res.ok
    /\ log.mmap_tries = 0 /\ log.stream_runs = 0

\* The rows a read of the file under the row cap n_rows has.
CappedRows(n_rows) == IF n_rows.some THEN Min(n_rows.v, file.rows) ELSE file.rows

DataColumns(df) == {i \in 1..Len(df.columns) : df.columns[i].kind = "data"}

\* C12: with a present, empty projection an Ok finish decodes nothing and
\* returns a frame without data columns whose height is the file's row count
\* capped by n_rows; with no projection the branch is not taken.
C12_AsClaimed ==
    (Finished("finish") /\ out.res.ok) =>
        /\ out.rd0.projection = Some(<<>>) =>
              /\ ShortCircuit
              /\ log.reader = None
              /\ DataColumns(out.res.v) = {}
              /\ out.res.v.height = CappedRows(out.rd0.n_rows)
        /\ out.rd0.projection = None => ~ShortCircuit

\* What the branch does: the height is n_rows itself when set (line 266), the
\* file's row count otherwise (line 268).
C12_HeightIsNRows ==
    (Finished("finish") /\ out.res.ok) =>
        /\ out.rd0.projection = Some(<<>>) =>
              /\ ShortCircuit
              /\ log.reader = None
              /\ DataColumns(out.res.v) = {}
              /\ out.res.v.height =
                    IF out.rd0.n_rows.some THEN out.rd0.n_rows.v ELSE file.rows
        /\ out.rd0.projection = None => ~ShortCircuit

\* A file of fewer rows than n_rows: the frame has n_rows rows.
C12_Witness ==
    /\ ShortCircuit
    /\ out.rd0.projection = Some(<<>>)
    /\ out.rd0.n_rows.some /\ out.rd0.n_rows.v > file.rows
    /\ out.res.v.height = out.rd0.n_rows.v

\* The call got as far as choosing a read strategy: finish_with_scan_ops
\* always does; finish does when it has a schema (line 251-255) and the
\* projection is not present and empty (line 264).
ReachedChoice ==
    \/ Finished("finish_with_scan_ops")
    \/ /\ Finished("finish")
       /\ out.rd0.schema.some \/ file.readable
       /\ out.rd0.projection # Some(<<>>)

\* The reader was consumed with a memory map path set, on a real file.
Mappable == out.rd0.memory_map.some /\ file.is_file

\* C13 as stated: memory mapping is attempted only with a configured path on a
\* real file, and in every other configuration the streaming reader runs.
C13_AsClaimed ==
    ~Open =>
        /\ log.mmap_tries > 0 => Mappable
        /\ ~Mappable => (log.mmap_tries = 0 /\ log.stream_runs = 1)

\* C13: memory mapping is attempted exactly when the call reaches the choice
\* of strategy with a configured path on a real file; a call that reaches the
\* choice in any other configuration enters the streaming path without an
\* attempt; a call that does not reach the choice runs neither.
C13_MmapOnlyOnRealFile ==
    ~Open =>
        /\ log.mmap_tries = IF ReachedChoice /\ Mappable THEN 1 ELSE 0
        /\ (ReachedChoice /\ ~Mappable) => log.stream_runs = 1
        /\ ~ReachedChoice => log.stream_runs = 0

\* A path is configured but the source is no file: streaming, no attempt.
C13_Witness ==
    /\ ~Open
    /\ out.rd0.memory_map.some /\ ~file.is_file
    /\ log.mmap_tries = 0 /\ log.stream_runs = 1 /\ out.res.ok

C13_WitnessMapped ==
    /\ ~Open
    /\ log.mmap_tries = 1 /\ log.stream_runs = 0 /\ out.res.ok

\* The memory map attempt of the call failed with error e.
MmapFailed(e) == ~Open /\ log.mmap_err = Some(e)

\* C14: after a failed memory map attempt the streaming path runs if and only
\* if the failure is the compressed-file one; any other failure is the
\* result of the call, unchanged, and the streaming path does not run.
C14_FallbackOnlyWhenCompressed ==
    (~Open /\ log.mmap_err.some) =>
        IF log.mmap_err.v = CompressedErr
        THEN log.stream_runs = 1
        ELSE /\ log.stream_runs = 0
             /\ log.reader = None
             /\ out.res = Err(log.mmap_err.v)

\* A ComputeError with another message is returned, not fallen back from.
C14_Witness ==
    /\ MmapFailed(PolarsError("ComputeError", "mmap failed"))
    /\ out.res = Err(PolarsError("ComputeError", "mmap failed"))
    /\ log.stream_runs = 0

C14_WitnessFallback ==
    /\ MmapFailed(CompressedErr)
    /\ log.stream_runs = 1
    /\ out.res.ok

\* The result of the same call on the same reader with memory_map unset.
StreamingOnly ==
    LET r == [out.rd0 EXCEPT !.memory_map = None]
    IN  IF Finished("finish") THEN finish(r, out.log0).res
        ELSE finish_with_scan_ops(r, out.log0, out.args.predicate, out.args.verbose).res

\* A call on a compressed real file with a memory map path set.
MappedCompressed == ~Open /\ Mappable /\ file.compressed

\* C15 as stated: such a call returns what the streaming-only call returns and
\* prints exactly one message.
C15_AsClaimed ==
    MappedCompressed =>
        /\ out.res = StreamingOnly
        /\ Len(log.diags) = 1

\* C15: such a call returns what the streaming-only call returns; when it
\* reaches the choice of strategy it prints the fallback warning once,
\* preceded under finish_with_scan_ops with verbose by the memory map note;
\* when it does not reach the choice it prints nothing.
C15_FallbackSameFrame ==
    MappedCompressed =>
        /\ out.res = StreamingOnly
        /\ log.diags =
              IF ~ReachedChoice THEN <<>>
              ELSE IF Finished("finish_with_scan_ops") /\ out.args.verbose
                   THEN <<VerboseNote, FallbackWarning>>
                   ELSE <<FallbackWarning>>

\* verbose: two messages, and the frame of the streaming reader.
C15_Witness ==
    /\ MappedCompressed
    /\ Finished("finish_with_scan_ops") /\ out.args.verbose
    /\ out.res.ok /\ out.res.v.height = MaxRows
    /\ Len(log.diags) = 2

C15_WitnessFinish ==
    /\ MappedCompressed
    /\ Finished("finish")
    /\ out.res.ok /\ out.res.v.height = MaxRows
    /\ DataColumns(out.res.v) # {}
    /\ log.diags = <<FallbackWarning>>

\* A fixed-size-list column of width MaxSize as the streaming reader hands it
\* to its decoder: the writer's queues, decoded with the reader's limit.
ListColumn == FixedSizeList(Int32, MaxSize)
DecodeUnder(reader) ==
    LET b == Batch(ListColumn, MaxLen, TRUE, [k |-> "none", n |-> 0])
    IN  read_fixed_size_list(b.nodes, ListColumn, b.bufs, reader.limit)

\* finish returned a frame under the row cap n.
Capped(n) == Finished("finish") /\ out.res.ok /\ out.rd0.n_rows = Some(n)

\* C16 as stated: the cap is the limit of the streaming reader and of every
\* decoder under it, and the frame has at most n rows.
C16_AsClaimed ==
    \A n \in 0..(MaxRows + 1) :
        Capped(n) =>
            /\ out.res.v.height <= n
            /\ log.reader.some =>
                  /\ log.reader.v.limit = Some(n)
                  /\ \A i \in 1..Len(DecodeUnder(log.reader.v).calls) :
                        /\ DecodeUnder(log.reader.v).calls[i].vlimit = Some(n)
                        /\ DecodeUnder(log.reader.v).calls[i].climit = Some(n)

\* C16: the cap is the limit of the streaming reader and of the column decoder
\* under it; a fixed-size-list decoder hands its child the cap times the
\* width; the frame and each of its columns have at most n rows on every path.
C16_RowCap ==
    \A n \in 0..(MaxRows + 1) :
        Capped(n) =>
            /\ out.res.v.height <= n
            /\ \A i \in 1..Len(out.res.v.columns) : out.res.v.columns[i].len <= n
            /\ log.reader.some =>
                  /\ log.reader.v.limit = Some(n)
                  /\ DecodeUnder(log.reader.v).status = "Ok"
                  /\ DecodeUnder(log.reader.v).arr.len <= n
                  /\ DecodeUnder(log.reader.v).calls[1].vlimit = Some(n)
                  /\ DecodeUnder(log.reader.v).calls[1].climit = Some(n * MaxSize)

\* A file of more rows than the cap, read by the streaming reader.
C16_Witness ==
    /\ Capped(1)
    /\ file.rows = MaxRows
    /\ log.stream_runs = 1 /\ log.reader.some
    /\ out.res.v.height = 1
    /\ DecodeUnder(log.reader.v).calls[1].climit = Some(MaxSize)

C16_WitnessShortCircuit ==
    /\ Capped(1) /\ ShortCircuit
    /\ file.rows = MaxRows
    /\ out.res.v.height = 1

C16_WitnessMapped ==
    /\ Capped(1)
    /\ file.rows = MaxRows
    /\ log.mmap_tries = 1 /\ log.stream_runs = 0
    /\ out.res.v.height = 1

\* The frame finish returns for the same reader with no hive columns and no
\* file path column configured: the assembled batch.
Assembled ==
    finish([out.rd0 EXCEPT !.hive_partition_columns = None, !.include_file_path = None],
           out.log0).res

\* The columns a frame of height h gets for the configured injections.
Injected(r, h) ==
    (IF r.hive_partition_columns.some
     THEN [i \in 1..Len(r.hive_partition_columns.v) |->
              Column(r.hive_partition_columns.v[i], "hive", h)]
     ELSE <<>>)
    \o (IF r.include_file_path.some
        THEN <<[name |-> r.include_file_path.v.name, kind |-> "scalar", len |-> h,
                value |-> Some(r.include_file_path.v.value)]>>
        ELSE <<>>)

\* C17: an Ok finish returns the assembled batch followed by the configured
\* hive columns and then the file path column, a scalar column as long as the
\* frame is high; the height and the assembled columns are the batch's; an Err
\* finish carries no frame, and is the Err of the assembly.
C17_PostProcessing ==
    Finished("finish") =>
        IF out.res.ok
        THEN /\ Assembled.ok
             /\ out.res.v.height = Assembled.v.height
             /\ out.res.v.columns =
                    Assembled.v.columns \o Injected(out.rd0, Assembled.v.height)
             /\ \A i \in 1..Len(out.res.v.columns) :
                    out.res.v.columns[i].len = out.res.v.height
        ELSE /\ DOMAIN out.res = {"ok", "err"}
             /\ out.res = Assembled

\* Both injections on the frame of the streaming reader.
C17_Witness ==
    /\ Finished("finish") /\ out.res.ok
    /\ log.stream_runs = 1
    /\ out.rd0.hive_partition_columns.some /\ out.rd0.include_file_path.some
    /\ out.res.v.height = MaxRows
    /\ Len(out.res.v.columns) = Len(FileSchema) + 2
    /\ out.res.v.columns[Len(FileSchema) + 2].kind = "scalar"
    /\ out.res.v.columns[Len(FileSchema) + 2].len = MaxRows

C17_WitnessShortCircuit ==
    /\ ShortCircuit
    /\ out.rd0.hive_partition_columns.some /\ out.rd0.include_file_path.some
    /\ out.res.v.height = MaxRows
    /\ Len(out.res.v.columns) = 2

C17_WitnessMapped ==
    /\ Finished("finish") /\ out.res.ok
    /\ log.mmap_tries = 1 /\ log.stream_runs = 0
    /\ out.rd0.hive_partition_columns.some /\ out.rd0.include_file_path.some
    /\ Len(out.res.v.columns) = Len(FileSchema) + 2

C17_WitnessErr ==
    /\ Finished("finish") /\ ~out.res.ok
    /\ out.rd0.include_file_path.some
    /\ log.stream_runs = 1

----------------------------------------------------------------------------
(* Round trips: an array is written to the two queues, decoded, written    *)
(* again and decoded again; a frame is written to a file and read back by  *)
(* IpcReader::finish (the module example of ipc_file.rs).  The writer is   *)
(* modelled from the specification.                                        *)

\* The decoded array is written back and decoded again up to MaxRounds times.
MaxRounds == 1

RECURSIVE TypeOf(_)
TypeOf(arr) ==
    IF arr.kind = "fsl" THEN FixedSizeList(TypeOf(arr.values), arr.size) ELSE Int32

NullsIn(validity) ==
    IF validity.some
    THEN Cardinality({i \in 1..Len(validity.v) : validity.v[i] = 0})
    ELSE 0

\* The writer: per array its node, its validity slot (the bitmap when the array has
\* one), then the child's entries or the values buffer.
RECURSIVE write_array(_, _, _)
write_array(c, lvl, arr) ==
    LET node == Node(arr.len, NullsIn(arr.validity), <<c, lvl>>)
        vbuf == IpcBuffer(IF arr.validity.some THEN arr.validity.v ELSE <<>>, <<c, lvl>>)
    IN  IF arr.kind = "fsl"
        THEN [nodes |-> <<node>> \o write_array(c, lvl + 1, arr.values).nodes,
              bufs  |-> <<vbuf>> \o write_array(c, lvl + 1, arr.values).bufs]
        ELSE [nodes |-> <<node>>,
              bufs  |-> <<vbuf, IpcBuffer(arr.values, <<c, lvl>>)>>]

\* The rows of an array as values: None for a null row, the element or the row's
\* elements otherwise.
RECURSIVE Rows(_)
Rows(arr) ==
    [i \in 1..arr.len |->
        IF arr.validity.some /\ arr.validity.v[i] = 0 THEN None
        ELSE IF arr.kind = "fsl"
             THEN Some(SubSeq(Rows(arr.values), (i - 1) * arr.size + 1, i * arr.size))
             ELSE Some(arr.values[i])]

\* Array equality: same type, same rows.
Equal(a, b) == TypeOf(a) = TypeOf(b) /\ Rows(a) = Rows(b)

\* No bitmap, a bitmap without nulls, a bitmap whose first row is null.
ValidityChoices(len) == {None, Some(Repeat(1, len)), Some(Bits(len, TRUE))}

RECURSIVE ArraysOf(_, _)
ArraysOf(dtype, len) ==
    IF dtype.kind = "fsl"
    THEN {[kind |-> "fsl", size |-> dtype.size, len |-> len, values |-> ch, validity |-> v] :
             ch \in ArraysOf(dtype.child, len * dtype.size), v \in ValidityChoices(len)}
    ELSE {[kind |-> "prim", len |-> len, values |-> Iota(len), validity |-> v] :
             v \in ValidityChoices(len)}

\* [[1, 2, 3], null, [7, 8, 9]]
Scenario ==
    [kind |-> "fsl", size |-> 3, len |-> 3, validity |-> Some(<<1, 0, 1>>),
     values |-> [kind |-> "prim", len |-> 9, validity |-> None,
                 values |-> <<1, 2, 3, 0, 0, 0, 7, 8, 9>>]]

Arrays ==
    {Scenario} \cup
    UNION {ArraysOf(dtype, len) : dtype \in Nested0 \cup Nested1, len \in 0..MaxLen}

\* The frame of h rows over the columns of the file's schema, and the file the
\* writer makes of it.
Frame(h) == [height |-> h, columns |-> [i \in 1..Len(FileSchema) |-> Column(FileSchema[i], "data", h)]]
WrittenFiles ==
    {f \in Files : f.readable /\ ~f.fault.some /\ f.is_file}

InitRoundTrip ==
    \E a \in Arrays, f \in WrittenFiles :
        /\ schema = <<TypeOf(a)>>
        /\ field_nodes = write_array(1, 0, a).nodes
        /\ buffers = write_array(1, 0, a).bufs
        /\ limit = None
        /\ col = 1
        /\ pc = "run"
        /\ input = [array |-> a, round |-> 0, prev |-> NoArray, frame |-> Frame(f.rows)]
        /\ last = NoCall
        /\ file = f
        /\ rd = IpcReaderNew
        /\ log = Log0
        /\ out = NoOut
        /\ OthersIdle

\* The decoded array is written again.
WriteBack ==
    /\ pc = "done"
    /\ last.res.status = "Ok"
    /\ input.round < MaxRounds
    /\ field_nodes' = write_array(1, 0, last.res.arr).nodes
    /\ buffers' = write_array(1, 0, last.res.arr).bufs
    /\ col' = 1
    /\ pc' = "run"
    /\ input' = [input EXCEPT !.round = @ + 1, !.prev = last.res.arr]
    /\ last' = NoCall
    /\ UNCHANGED <<schema, limit>>
    /\ UNCHANGED <<readerVars, taskVars, pathVars, hubVars, topk>>

NextRoundTrip == ReadColumn \/ WriteBack \/ FinishCall

SpecRoundTrip == InitRoundTrip /\ [][NextRoundTrip]_vars

C18_WitnessAllValid ==
    /\ OnList("read")
    /\ input.array.validity = Some(<<1, 1>>)
    /\ last.res.status = "Ok"
    /\ last.res.arr.validity = None

C18_WitnessZeroWidth ==
    /\ OnList("read")
    /\ input.array.size = 0 /\ input.array.len = MaxLen
    /\ last.res.status = "Err"

----------------------------------------------------------------------------
(* Concurrent decode calls (fixed_size_list.rs lines 15-85).               *)
(*                                                                         *)
(* Two calls decode or skip the same record batch.  Each owns its queues   *)
(* (field_nodes, buffers: &mut VecDeque), its reader (reader: &mut R, a    *)
(* cursor over the source) and its scratch; the source is shared.  A       *)
(* buffer of a queue names a block of the source; a read seeks the call's  *)
(* reader to the block and then reads at the reader's position.  A call    *)
(* advances one statement at a time, and the calls interleave freely.      *)

Callers == {1, 2}

\* IpcBuffer { offset, length }: the block of the source a buffer names.
BufferAt(k, b) == [offset |-> k, length |-> Len(b.data), owner |-> b.owner]
Descriptors(bufs) == [k \in 1..Len(bufs) |-> BufferAt(k, bufs[k])]
Blocks(bufs) == [k \in 1..Len(bufs) |-> bufs[k].data]

\* The buffers of a queue with the bytes of src they name.
View(src, descs) ==
    [k \in 1..Len(descs) |-> IpcBuffer(src[descs[k].offset], descs[k].owner)]

reader_shared(p) == 1

\* reader: &mut R -- the reader a call holds is its own.
reader_of(p) == p

NoNode == Node(0, 0, NoOwner)

NewTask(op, nodes, descs, dtype, lim) ==
    [op |-> op, nodes |-> nodes, bufs |-> descs, dtype |-> dtype, lim |-> lim,
     stack |-> <<>>, at |-> "node", node |-> NoNode, validity |-> None,
     status |-> "run", err |-> "none", arr |-> NoArray,
     start |-> [nodes |-> nodes, bufs |-> descs, dtype |-> dtype, lim |-> lim]]

\* The `?` of a failing statement.
Fail(ts, err) == [ts EXCEPT !.status = "Err", !.err = err, !.at = "done", !.arr = NoArray]

\* Where a decode goes on after its validity: the width check of a list, the
\* values buffer of a leaf.
AfterValidity(ts) == IF ts.dtype.kind = "fsl" THEN "size" ELSE "values_buffer"

TaskChoices ==
    {[op |-> "read", lim |-> None], [op |-> "read", lim |-> Some(1)],
     [op |-> "skip", lim |-> None]}

TaskDamages ==
    {[k |-> "none", n |-> 0], [k |-> "dropBufs", n |-> 2], [k |-> "shortValidity", n |-> 1]}

InitTasks ==
    \E dtype \in Nested0 \cup Nested1, length \in 0..MaxLen, nulls \in BOOLEAN :
    \E damage \in TaskDamages :
    \E c \in [Callers -> TaskChoices] :
        LET b == Batch(dtype, length, nulls, damage)
        IN  /\ source = Blocks(b.bufs)
            /\ tasks = [calls  |-> [p \in Callers |->
                                       NewTask(c[p].op, b.nodes, Descriptors(b.bufs),
                                               dtype, c[p].lim)],
                        cursor |-> [p \in Callers |-> 0],
                        source0 |-> Blocks(b.bufs)]
            /\ DecoderIdle
            /\ file = None /\ rd = None /\ log = None /\ out = None
            /\ uri = None /\ parts = None
            /\ HubIdle /\ TopKIdle

\* Call p is at statement `at` of operation op.
At(p, op, at) ==
    /\ tasks.calls[p].status = "run"
    /\ tasks.calls[p].op = op
    /\ tasks.calls[p].at = at

\* A statement of call p: its own state changes, the source does not.
Update(p, ts) ==
    /\ tasks' = [tasks EXCEPT !.calls[p] = ts]
    /\ UNCHANGED source
    /\ UNCHANGED <<decoderVars, readerVars, pathVars, hubVars, topk>>

\* A statement of call p that seeks its reader.
UpdateSeek(p, ts, pos) ==
    /\ tasks' = [tasks EXCEPT !.calls[p] = ts, !.cursor[reader_of(p)] = pos]
    /\ UNCHANGED source
    /\ UNCHANGED <<decoderVars, readerVars, pathVars, hubVars, topk>>

\* line 30 (and the leaf decoder): try_get_field_node
TakeNode(p) ==
    /\ At(p, "read", "node")
    /\ LET ts == tasks.calls[p]
           f  == try_get_field_node(ts.nodes)
       IN  Update(p, IF ~f.ok THEN Fail(ts, f.err)
                     ELSE [ts EXCEPT !.nodes = f.rest, !.node = f.node, !.at = "buffer"])

\* lines 32-41, read_validity: the buffer is popped; with nulls declared the
\* reader seeks to its block.  Likewise the leaf's values buffer.
TakeBuffer(p) ==
    /\ At(p, "read", "buffer") \/ At(p, "read", "values_buffer")
    /\ LET ts == tasks.calls[p]
       IN  IF ts.bufs = <<>> THEN Update(p, Fail(ts, "oos"))
           ELSE IF ts.at = "values_buffer"
           THEN UpdateSeek(p, [ts EXCEPT !.bufs = Tail(@), !.at = "values"],
                           Head(ts.bufs).offset)
           ELSE IF ts.node.null_count > 0
           THEN UpdateSeek(p, [ts EXCEPT !.bufs = Tail(@), !.at = "validity"],
                           Head(ts.bufs).offset)
           ELSE Update(p, [ts EXCEPT !.bufs = Tail(@), !.validity = None,
                                     !.at = AfterValidity(ts)])

\* lines 32-41, read_validity: the bitmap is read at the reader's position.
ReadValidity(p) ==
    /\ At(p, "read", "validity")
    /\ LET ts   == tasks.calls[p]
           data == source[tasks.cursor[reader_of(p)]]
           v    == read_validity(<<IpcBuffer(data, NoOwner)>>, ts.node, ts.lim)
       IN  Update(p, IF ~v.ok THEN Fail(ts, v.err)
                     ELSE [ts EXCEPT !.validity = v.validity, !.at = AfterValidity(ts)])

\* The leaf decoder: the values are read at the reader's position.
ReadValues(p) ==
    /\ At(p, "read", "values")
    /\ LET ts     == tasks.calls[p]
           data   == source[tasks.cursor[reader_of(p)]]
           length == IF ts.lim.some THEN Min(ts.lim.v, ts.node.length) ELSE ts.node.length
       IN  Update(p, IF Len(data) < length THEN Fail(ts, "io")
                     ELSE [ts EXCEPT !.arr = [kind |-> "prim", len |-> length,
                                              values |-> SubSeq(data, 1, length),
                                              validity |-> ts.validity],
                                     !.at = "build"])

\* lines 43-48: the width check, the child's limit, the call of read on the child.
EnterChild(p) ==
    /\ At(p, "read", "size")
    /\ LET ts == tasks.calls[p]
           cs == get_child_and_size(ts.dtype)
       IN  Update(p, IF ~ensure_size(cs.size) THEN Fail(ts, "nyi")
                     ELSE [ts EXCEPT !.stack = Append(@, [dtype |-> ts.dtype, size |-> cs.size,
                                                          validity |-> ts.validity]),
                                     !.dtype = cs.field,
                                     !.lim = child_limit(ts.lim, cs.size),
                                     !.at = "node"])

\* line 63: the child returned; the list is built, or the call returns.
Build(p) ==
    /\ At(p, "read", "build")
    /\ LET ts   == tasks.calls[p]
           f    == ts.stack[Len(ts.stack)]
           made == new_list(f.dtype, f.size, ts.arr, f.validity)
       IN  Update(p, IF ts.stack = <<>> THEN [ts EXCEPT !.status = "Ok", !.at = "done"]
                     ELSE IF made.status # "Ok"
                     THEN [ts EXCEPT !.status = made.status, !.err = made.err,
                                     !.at = "done", !.arr = NoArray]
                     ELSE [ts EXCEPT !.arr = made.arr,
                                     !.stack = SubSeq(@, 1, Len(@) - 1)])

\* lines 72-76 (and the leaf skip): the node is popped.
SkipNode(p) ==
    /\ At(p, "skip", "node")
    /\ LET ts == tasks.calls[p]
       IN  Update(p, IF ts.nodes = <<>> THEN Fail(ts, "oos")
                     ELSE [ts EXCEPT !.nodes = Tail(@), !.at = "buffer"])

\* lines 78-84: the buffer is popped, unread, and the child is skipped; the
\* leaf skip pops two buffers.
SkipBuffer(p) ==
    /\ At(p, "skip", "buffer") \/ At(p, "skip", "values_buffer")
    /\ LET ts == tasks.calls[p]
       IN  Update(p, IF ts.bufs = <<>> THEN Fail(ts, "oos")
                     ELSE IF ts.dtype.kind = "fsl"
                     THEN [ts EXCEPT !.bufs = Tail(@),
                                     !.dtype = get_child_and_size(ts.dtype).field,
                                     !.at = "node"]
                     ELSE IF ts.at = "buffer"
                     THEN [ts EXCEPT !.bufs = Tail(@), !.at = "values_buffer"]
                     ELSE [ts EXCEPT !.bufs = Tail(@), !.status = "Ok", !.at = "done"])

NextTasks ==
    \E p \in Callers :
        \/ TakeNode(p)
        \/ TakeBuffer(p)
        \/ ReadValidity(p)
        \/ ReadValues(p)
        \/ EnterChild(p)
        \/ Build(p)
        \/ SkipNode(p)
        \/ SkipBuffer(p)

SpecTasks == InitTasks /\ [][NextTasks]_vars

\* What call p returns and leaves when it runs alone, from start to end.
Alone(p) ==
    LET s == tasks.calls[p].start
    IN  IF tasks.calls[p].op = "read"
        THEN read(s.nodes, s.dtype, View(tasks.source0, s.bufs), s.lim)
        ELSE skip(s.nodes, s.dtype, View(tasks.source0, s.bufs))

Returned(p) == tasks.calls[p].status # "run"

\* C19: however the statements of the two calls interleave, a call that has
\* returned has the result, the array and the queues of the call run alone,
\* and the source bytes are those the calls started with.
C19_InterleavingIsSequential ==
    /\ source = tasks.source0
    /\ \A p \in Callers :
          Returned(p) =>
              /\ tasks.calls[p].status = Alone(p).status
              /\ tasks.calls[p].err = Alone(p).err
              /\ tasks.calls[p].arr = Alone(p).arr
              /\ tasks.calls[p].nodes = Alone(p).nodes
              /\ View(source, tasks.calls[p].bufs) = Alone(p).bufs

\* Both calls returned arrays of a nested list with nulls, one under a limit.
C19_Witness ==
    /\ \A p \in Callers : tasks.calls[p].status = "Ok" /\ tasks.calls[p].op = "read"
    /\ tasks.calls[1].start.dtype = FixedSizeList(FixedSizeList(Int32, MaxSize), MaxSize)
    /\ tasks.calls[1].start.lim = None /\ tasks.calls[2].start.lim = Some(1)
    /\ tasks.calls[1].arr.len = MaxLen /\ tasks.calls[2].arr.len = 1
    /\ tasks.calls[1].arr.validity.some

\* Both calls between the seek and the read of different buffers.
C19_WitnessMidway ==
    /\ At(1, "read", "values") /\ At(2, "read", "validity")
    /\ tasks.cursor[1] # tasks.cursor[2]

----------------------------------------------------------------------------
(* HFPathParts::try_from_uri (crates/polars-io/src/path_utils/             *)
(* hugging_face.rs).  A string is the sequence of its characters; the      *)
(* URIs of the model are ASCII, so every index is a character boundary.    *)

\* A URI is a scheme, a bucket and up to MaxTail further characters.
MaxTail == 5

Hf == <<"h", "f", ":", "/", "/">>
S3 == <<"s", "3", ":", "/", "/">>
Datasets == <<"d", "a", "t", "a", "s", "e", "t", "s">>
Spaces == <<"s", "p", "a", "c", "e", "s">>
Bucket == <<"b", "u", "c", "k", "e", "t">>
Main == <<"m", "a", "i", "n">>

\* const BUCKETS: [&str; 2] = ["datasets", "spaces"]
BUCKETS == {Datasets, Spaces}

TailChars == {"/", "@", "a", "x"}
Tails == UNION {[1..k -> TailChars] : k \in 0..MaxTail}
Uris == {scheme \o bucket \o tail :
            scheme \in {Hf, S3, <<":", "/", "/">>},
            bucket \in {Datasets, Spaces, Bucket, <<>>},
            tail \in Tails}

starts_with(str, prefix) ==
    Len(str) >= Len(prefix) /\ SubSeq(str, 1, Len(prefix)) = prefix

\* memchr::memchr: the 0-based index of the first occurrence
memchr(c, str) ==
    IF \E i \in 1..Len(str) : str[i] = c
    THEN Some((CHOOSE i \in 1..Len(str) :
                  str[i] = c /\ \A j \in 1..(i - 1) : str[j] # c) - 1)
    ELSE None

\* str.get(..i) and str.get(i..)
get_to(str, i) == IF i <= Len(str) THEN Some(SubSeq(str, 1, i)) ELSE None
get_from(str, i) == IF i <= Len(str) THEN Some(SubSeq(str, i + 1, Len(str))) ELSE None

HFPathParts(bucket, repository, revision, path) ==
    [bucket |-> bucket, repository |-> repository, revision |-> revision, path |-> path]

\* lines 74-121: the closure; None at every `?` and `return None`.
parse_uri(u) ==
    IF ~starts_with(u, Hf) THEN None
    ELSE
    LET u1 == SubSeq(u, 6, Len(u))
        i1 == memchr("/", u1)
    IN  IF ~i1.some THEN None
        ELSE
    LET bucket == get_to(u1, i1.v)
        u2 == get_from(u1, 1 + i1.v)
    IN  IF ~bucket.some \/ ~u2.some THEN None
        ELSE
    LET i2 == memchr("/", u2.v)
    IN  IF ~i2.some THEN None
        ELSE
    LET sub == get_from(u2.v, 1 + i2.v)
    IN  IF ~sub.some THEN None
        ELSE IF sub.v = <<>> THEN None
        ELSE
    LET j == memchr("/", sub.v)
        i == 1 + i2.v + (IF j.some THEN j.v ELSE Len(sub.v))
        repository == get_to(u2.v, i)
        rest == get_from(u2.v, 1 + i)
    IN  IF ~repository.some THEN None
        ELSE
    LET at == memchr("@", repository.v)
    IN  Some(HFPathParts(bucket.v,
                         IF at.some THEN SubSeq(repository.v, 1, at.v) ELSE repository.v,
                         IF at.some
                         THEN SubSeq(repository.v, at.v + 2, Len(repository.v))
                         ELSE Main,
                         IF rest.some THEN rest.v ELSE <<>>))

try_from_uri(u) ==
    LET this == parse_uri(u)
    IN  IF ~this.some
        THEN Err(PolarsError("ComputeError", "invalid Hugging Face path"))
        ELSE IF this.v.bucket \notin BUCKETS
        THEN Err(PolarsError("ComputeError", "hugging face uri bucket must be one of"))
        ELSE Ok(this.v)

InitHf ==
    /\ uri \in Uris
    /\ parts = None
    /\ DecoderIdle
    /\ file = None /\ rd = None /\ log = None /\ out = None
    /\ source = None /\ tasks = None
    /\ HubIdle /\ TopKIdle

TryFromUri ==
    /\ parts = None
    /\ parts' = Some(try_from_uri(uri))
    /\ UNCHANGED uri
    /\ UNCHANGED <<decoderVars, readerVars, taskVars, hubVars, topk>>

NextHf == TryFromUri

SpecHf == InitHf /\ [][NextHf]_vars

\* The segments of a string between its '/' characters.
RECURSIVE Segments(_)
Segments(str) ==
    IF memchr("/", str).some
    THEN <<SubSeq(str, 1, memchr("/", str).v)>>
         \o Segments(SubSeq(str, memchr("/", str).v + 2, Len(str)))
    ELSE <<str>>

\* The segments from the k-th on, joined by '/'.
RECURSIVE JoinFrom(_, _)
JoinFrom(segs, k) ==
    IF k > Len(segs) THEN <<>>
    ELSE IF k = Len(segs) THEN segs[k]
    ELSE segs[k] \o <<"/">> \o JoinFrom(segs, k + 1)

\* hf:// bucket / user / name[@revision] [/ path]
After(u) == Segments(SubSeq(u, Len(Hf) + 1, Len(u)))
NameOf(seg) == IF memchr("@", seg).some THEN SubSeq(seg, 1, memchr("@", seg).v) ELSE seg
RevisionOf(seg) ==
    IF memchr("@", seg).some THEN SubSeq(seg, memchr("@", seg).v + 2, Len(seg)) ELSE Main

\* The URIs the documented form admits: the scheme, a bucket of BUCKETS, a
\* user name, a repository name that is not empty.
WellFormedUri(u) ==
    /\ starts_with(u, Hf)
    /\ Len(After(u)) >= 3
    /\ After(u)[1] \in BUCKETS
    /\ After(u)[2] # <<>>
    /\ NameOf(After(u)[3]) # <<>>

\* C20 as stated: a URI is accepted exactly when it is of the documented form,
\* and then the repository is user/name, the revision the text after '@' in
\* the repository segment or main, the path the text after that segment.
C20_AsClaimed ==
    parts.some =>
        IF WellFormedUri(uri)
        THEN parts.v = Ok(HFPathParts(After(uri)[1],
                                      After(uri)[2] \o <<"/">> \o NameOf(After(uri)[3]),
                                      RevisionOf(After(uri)[3]),
                                      JoinFrom(After(uri), 4)))
        ELSE ~parts.v.ok

\* What the function does: it accepts exactly the URIs with the scheme, a
\* bucket of BUCKETS and something after the second '/'; user name and
\* repository name may be empty, and the '@' that splits off the revision is
\* the first one of user/name.
C20_Accepts ==
    parts.some =>
        LET ok  == /\ starts_with(uri, Hf)
                   /\ Len(After(uri)) >= 3
                   /\ After(uri)[1] \in BUCKETS
                   /\ JoinFrom(After(uri), 3) # <<>>
            seg == After(uri)[2] \o <<"/">> \o After(uri)[3]
        IN  IF ok
            THEN parts.v = Ok(HFPathParts(After(uri)[1], NameOf(seg), RevisionOf(seg),
                                          JoinFrom(After(uri), 4)))
            ELSE ~parts.v.ok

\* hf://datasets/a//x is accepted, with the repository a/ and the path x.
C20_Witness ==
    /\ uri = Hf \o Datasets \o <<"/", "a", "/", "/", "x">>
    /\ parts = Some(Ok(HFPathParts(Datasets, <<"a", "/">>, Main, <<"x">>)))


----------------------------------------------------------------------------
(* GetPages::find_link (hugging_face.rs lines 185-212).  The header is the *)
(* sequence of its bytes; a byte is written as the character it encodes,   *)
(* and Byte0xFF is a byte that no UTF-8 text contains.                     *)

\* A header of the documented form has up to MaxEntries entries.
MaxEntries == 2
\* Any other header is up to MaxTokens pieces long.
MaxTokens == 4

Byte0xFF == "0xFF"
Lt == "<"
Gt == ">"
Quote == "\""
RelEq == <<"r", "e", "l", "=", Quote>>

\* "<uri>; rel=\"r\"" and the entries of a header joined by ", "
Entry(e) == <<Lt>> \o e.uri \o <<Gt, ";", " ">> \o RelEq \o e.rel \o <<Quote>>

RECURSIVE JoinEntries(_)
JoinEntries(es) ==
    IF es = <<>> THEN <<>>
    ELSE IF Len(es) = 1 THEN Entry(es[1])
    ELSE Entry(es[1]) \o <<",", " ">> \o JoinEntries(Tail(es))

UriChoices == {<<>>, <<"u">>, <<"v">>, <<"u", "v">>, <<Byte0xFF>>}
RelChoices == {<<>>, <<"n">>, <<"l">>, <<"n", "l">>}
EntryChoices == [uri : UriChoices, rel : RelChoices]
EntryLists == UNION {[1..n -> EntryChoices] : n \in 0..MaxEntries}

Pieces == {<<Lt>>, <<Gt>>, RelEq, <<Quote>>, <<"n">>, <<Byte0xFF>>}

RECURSIVE Flatten(_)
Flatten(ps) == IF ps = <<>> THEN <<>> ELSE ps[1] \o Flatten(Tail(ps))

PieceLists == UNION {[1..n -> Pieces] : n \in 0..MaxTokens}

\* std::str::from_utf8(uri).map_err(to_compute_err).map(ToString::to_string)
from_utf8(bytes) ==
    IF \E i \in 1..Len(bytes) : bytes[i] = Byte0xFF
    THEN Err(PolarsError("ComputeError", "invalid utf-8 sequence"))
    ELSE Ok(bytes)

\* A variant of the scan of lines 194-196 that leaves the header where it is.
no_skip(link) == Some(link)

\* lines 194-196: while !link.starts_with("rel=\"") { link = link.get(1..)? }
RECURSIVE skip_to_rel(_)
skip_to_rel(link) ==
    IF starts_with(link, RelEq) THEN Some(link)
    ELSE LET rest == get_from(link, 1)
         IN  IF ~rest.some THEN None ELSE skip_to_rel(rest.v)

\* What one pass of the loop body does: it returns, or goes on with a shorter header.
Return(ret) == [returned |-> TRUE, ret |-> ret]
GoOn(link) == [returned |-> FALSE, link |-> link]

\* lines 188-208: one pass of the body of `while !link.is_empty()`
find_link_body(link, rel) ==
    LET i1 == memchr(Lt, link)
    IN  IF ~i1.some THEN Return(None)
        ELSE
    LET l1 == get_from(link, 1 + i1.v)
    IN  IF ~l1.some THEN Return(None)
        ELSE
    LET i2 == memchr(Gt, l1.v)
    IN  IF ~i2.some THEN Return(None)
        ELSE
    LET u == SubSeq(l1.v, 1, i2.v)
        l2 == get_from(l1.v, 1 + i2.v)
    IN  IF ~l2.some THEN Return(None)
        ELSE
    LET l3 == skip_to_rel(l2.v)
    IN  IF ~l3.some THEN Return(None)
        ELSE
    LET l4 == get_from(l3.v, 5)
    IN  IF ~l4.some THEN Return(None)
        ELSE
    LET i3 == memchr(Quote, l4.v)
    IN  IF ~i3.some THEN Return(None)
        ELSE IF SubSeq(l4.v, 1, i3.v) = rel
        THEN Return(Some(from_utf8(u)))
        ELSE GoOn(l4.v)

\* lines 185-212: the whole function
RECURSIVE find_link(_, _)
find_link(link, rel) ==
    IF link = <<>> THEN None
    ELSE LET b == find_link_body(link, rel)
         IN  IF b.returned THEN b.ret ELSE find_link(b.link, rel)

Next_ == <<"n">>
Last_ == <<"l">>

NewFinder(header, entries, rel) ==
    [header |-> header, entries |-> entries, rel |-> rel,
     link |-> header, prev |-> header, passes |-> 0, ret |-> None]

InitFind ==
    /\ \E rel \in {Next_, Last_} :
         \/ \E es \in EntryLists : finder = Some(NewFinder(JoinEntries(es), Some(es), rel))
         \/ \E ps \in PieceLists : finder = Some(NewFinder(Flatten(ps), None, rel))
    /\ gp = None /\ walk = None
    /\ DecoderIdle
    /\ file = None /\ rd = None /\ log = None /\ out = None
    /\ source = None /\ tasks = None /\ uri = None /\ parts = None
    /\ TopKIdle

Searching == finder.some /\ ~finder.v.ret.some

\* One pass of the loop: the header is not empty.
FindLinkPass ==
    /\ Searching
    /\ finder.v.link # <<>>
    /\ LET b == find_link_body(finder.v.link, finder.v.rel)
       IN  finder' = Some([finder.v EXCEPT
                              !.prev = finder.v.link,
                              !.passes = @ + 1,
                              !.link = IF b.returned THEN @ ELSE b.link,
                              !.ret = IF b.returned THEN Some(b.ret) ELSE None])
    /\ UNCHANGED <<gp, walk, topk>>
    /\ UNCHANGED <<decoderVars, readerVars, taskVars, pathVars>>

\* line 211: the header is used up.
FindLinkEnd ==
    /\ Searching
    /\ finder.v.link = <<>>
    /\ finder' = Some([finder.v EXCEPT !.ret = Some(None)])
    /\ UNCHANGED <<gp, walk, topk>>
    /\ UNCHANGED <<decoderVars, readerVars, taskVars, pathVars>>

NextFind == FindLinkPass \/ FindLinkEnd

SpecFind == InitFind /\ [][NextFind]_vars

\* The header has the documented form and its URIs are text.
OfTheForm ==
    /\ finder.v.entries.some
    /\ \A i \in 1..Len(finder.v.entries.v) :
          \A j \in 1..Len(finder.v.entries.v[i].uri) :
             finder.v.entries.v[i].uri[j] # Byte0xFF

HasRel(i) == finder.v.entries.v[i].rel = finder.v.rel
FirstWithRel ==
    CHOOSE i \in 1..Len(finder.v.entries.v) : HasRel(i) /\ \A j \in 1..(i - 1) : ~HasRel(j)

\* C21: on a header "<uri1>; rel=\"r1\", <uri2>; rel=\"r2\", ..." find_link
\* returns the URI of the first entry whose rel is the one asked for, and None
\* when no entry has it; on every header each pass of the loop leaves the
\* header shorter than it found it, so there are at most as many passes as
\* the header has bytes.
C21_FindLink ==
    finder.some =>
    /\ finder.v.passes <= Len(finder.v.header)
    /\ (finder.v.passes > 0 /\ ~finder.v.ret.some)
          => Len(finder.v.link) < Len(finder.v.prev)
    /\ (finder.v.ret.some /\ OfTheForm) =>
          IF \E i \in 1..Len(finder.v.entries.v) : HasRel(i)
          THEN finder.v.ret.v = Some(Ok(finder.v.entries.v[FirstWithRel].uri))
          ELSE finder.v.ret.v = None

\* The second entry of a two-entry header has the rel, and its URI was returned
\* on the second pass.
C21_Witness ==
    /\ finder.some /\ finder.v.ret.some /\ OfTheForm
    /\ Len(finder.v.entries.v) = 2
    /\ ~HasRel(1) /\ HasRel(2)
    /\ finder.v.passes = 2
    /\ finder.v.ret.v = Some(Ok(finder.v.entries.v[2].uri))

\* No entry has the rel: None.
C21_WitnessNone ==
    /\ finder.some /\ finder.v.ret.some /\ OfTheForm
    /\ Len(finder.v.entries.v) = 2
    /\ ~HasRel(1) /\ ~HasRel(2)
    /\ finder.v.ret.v = None

\* A URI that is not UTF-8 is an error.
C21_WitnessNotText ==
    /\ finder.some /\ finder.v.ret.some
    /\ finder.v.ret.v.some /\ ~finder.v.ret.v.v.ok


----------------------------------------------------------------------------
(* top_k (crates/polars-ops/src/chunked_array/top_k.rs).  A column is its  *)
(* data type, its values (None for a null) and its sorted flag; a Boolean  *)
(* value is its bit, 0 or 1.                                               *)

\* Columns are up to MaxColLen long, their numbers range over 0..MaxValue,
\* k ranges over 0..MaxK.
MaxColLen == 3
MaxValue == 2
MaxK == 4

Series(dtype, values, sorted) == [dtype |-> dtype, values |-> values, sorted |-> sorted]

ValuesOf(dtype) == IF dtype = "Boolean" THEN 0..1 ELSE 0..MaxValue
Cells(dtype) == {None} \cup {Some(v) : v \in ValuesOf(dtype)}

null_count(values) == Cardinality({i \in 1..Len(values) : ~values[i].some})

\* ca.drop_nulls(), as a Vec of the native values
drop_nulls(values) == SelectSeq(values, LAMBDA c : c.some)
Natives(values) == [i \in 1..Len(drop_nulls(values)) |-> drop_nulls(values)[i].v]

\* The column is in the order its flag says, with its nulls at one end.
NullsAtOneEnd(values) ==
    \/ \A i, j \in 1..Len(values) : (i < j /\ ~values[j].some) => ~values[i].some
    \/ \A i, j \in 1..Len(values) : (i < j /\ ~values[i].some) => ~values[j].some

ReallySorted(values, sorted) ==
    /\ NullsAtOneEnd(values)
    /\ \A i, j \in 1..Len(Natives(values)) :
          i < j => IF sorted = "Ascending"
                   THEN Natives(values)[i] <= Natives(values)[j]
                   ELSE Natives(values)[i] >= Natives(values)[j]

Columns ==
    {Series(dtype, values, sorted) :
        dtype \in {"Boolean", "Int32"},
        values \in UNION {[1..n -> Cells("Int32")] : n \in 0..MaxColLen},
        sorted \in {"Not", "Ascending", "Descending"}}

SrcChoices ==
    {c \in Columns :
        /\ \A i \in 1..Len(c.values) : c.values[i] \in Cells(c.dtype)
        /\ c.sorted # "Not" => ReallySorted(c.values, c.sorted)}

\* The column that carries k: one value, or none, or two, or a null.
KChoices == {<<Some(k)>> : k \in 0..MaxK} \cup {<<>>, <<None>>, <<Some(1), Some(1)>>}

\* A mask that marks nothing as null.
no_mask(num_valid, out_len) == None

\* lines 9-18
first_n_valid_mask(num_valid, out_len) ==
    IF num_valid < out_len
    THEN Some([i \in 1..out_len |-> i <= num_valid])
    ELSE None

\* An array from its physical values and its validity.
WithValidity(vec, validity) ==
    [i \in 1..Len(vec) |-> IF validity.some /\ ~validity.v[i] THEN None ELSE Some(vec[i])]

\* lines 51-59: the bits of `sequence`, cut at out_len
RECURSIVE extend_sequence(_, _)
extend_sequence(sequence, out_len) ==
    IF sequence = <<>> \/ out_len = 0 THEN <<>>
    ELSE LET extra == Min(out_len, sequence[1][1])
         IN  Repeat(sequence[1][2], extra) \o extend_sequence(Tail(sequence), out_len - extra)

\* lines 20-63
top_k_bool_impl(ca, k, descending) ==
    IF k >= Len(ca) /\ null_count(ca) = 0 THEN ca
    ELSE
    LET non_null_count == Len(ca) - null_count(ca)
        true_count == Cardinality({i \in 1..Len(ca) : ca[i] = Some(1)})
        false_count == non_null_count - true_count
        out_len == Min(k, Len(ca))
        validity == first_n_valid_mask(non_null_count, out_len)
        sequence == IF descending
                    THEN <<<<false_count, 0>>, <<true_count, 1>>, <<null_count(ca), 0>>>>
                    ELSE <<<<true_count, 1>>, <<false_count, 0>>, <<null_count(ca), 0>>>>
    IN  WithValidity(extend_sequence(sequence, out_len), validity)

\* TotalOrd::tot_cmp(a, b) is not Greater; with the arguments swapped for the top values.
NotAfter(a, b, descending) == IF descending THEN a <= b ELSE b <= a

\* vec.select_nth_unstable_by(k, cmp): any reordering with the element of index k in its
\* sorted place, nothing after it before it and nothing before it after it.
select_nth_unstable_by(vec, k, descending) ==
    {[i \in 1..Len(vec) |-> vec[f[i]]] : f \in Permutations(1..Len(vec))} \cap
    {w \in [1..Len(vec) -> 0..MaxValue] :
        /\ \A i \in 1..k : NotAfter(w[i], w[k + 1], descending)
        /\ \A i \in (k + 2)..Len(w) : NotAfter(w[k + 1], w[i], descending)}

\* lines 81-87: what the partition may leave in vec
Partitioned(ca, k, descending) ==
    IF k < Len(Natives(ca))
    THEN select_nth_unstable_by(Natives(ca), k, descending)
    ELSE {Natives(ca)}

\* vec.resize(out_len, T::Native::default())
resize(vec, new_len, value) ==
    [i \in 1..new_len |-> IF i <= Len(vec) THEN vec[i] ELSE value]

\* lines 65-97; vec is what the partition left
top_k_num_impl(ca, k, descending, vec) ==
    IF k >= Len(ca) /\ null_count(ca) = 0 THEN ca
    ELSE
    LET out_len == Min(k, Len(ca))
        non_null_count == Len(ca) - null_count(ca)
        validity == first_n_valid_mask(non_null_count, out_len)
    IN  WithValidity(resize(vec, out_len, 0), validity)

\* Column::slice(offset, length): a negative offset counts from the end.
slice(values, offset, length) ==
    LET n == Len(values)
        start == IF offset < 0
                 THEN (IF -offset <= n THEN n + offset ELSE 0)
                 ELSE Min(offset, n)
        take == IF offset < 0
                THEN (IF -offset <= n THEN Min(length, -offset) ELSE Min(length, n))
                ELSE Min(length, n - start)
    IN  SubSeq(values, start + 1, start + take)

\* An offset that skips no null.
zero_offset(src, ignored_len, slice_at_start) == 0

\* lines 182-187
sorted_offset(src, ignored_len, slice_at_start) ==
    LET nulls_at_start == ~src.values[1].some
    IN  IF nulls_at_start = slice_at_start
        THEN Min(null_count(src.values), ignored_len)
        ELSE 0

\* lines 179-193: the column is flagged as sorted
top_k_sorted(src, k, descending) ==
    LET out_len == Min(k, Len(src.values))
        ignored_len == Len(src.values) - out_len
        slice_at_start == ((src.sorted = "Ascending") = descending)
        offset == sorted_offset(src, ignored_len, slice_at_start)
    IN  IF slice_at_start
        THEN slice(src.values, offset, out_len)
        ELSE slice(src.values, (-offset) - out_len, out_len)

\* lines 196-221, for the Boolean and the primitive numeric types
top_k_general(src, k, descending, vec) ==
    IF src.dtype = "Boolean"
    THEN top_k_bool_impl(src.values, k, descending)
    ELSE top_k_num_impl(src.values, k, descending, vec)

\* lines 151-164
extract_target_and_k(k_s) ==
    IF Len(k_s) # 1
    THEN Err(PolarsError("ComputeError", "k must be a single value for top_k"))
    ELSE IF ~k_s[1].some
    THEN Err(PolarsError("ComputeError", "k must be set for top_k"))
    ELSE Ok(k_s[1].v)

\* lines 150-222
top_k(src, k_s, descending, vec) ==
    LET k == extract_target_and_k(k_s)
    IN  IF ~k.ok THEN k
        ELSE IF src.values = <<>> THEN Ok(src.values)
        ELSE IF src.sorted # "Not" THEN Ok(top_k_sorted(src, k.v, descending))
        ELSE Ok(top_k_general(src, k.v, descending, vec))

InitTopK ==
    /\ \E src \in SrcChoices, k_s \in KChoices, descending \in BOOLEAN :
          topk = Some([src |-> src, k_s |-> k_s, descending |-> descending,
                       vec |-> None, ret |-> None])
    /\ HubIdle
    /\ DecoderIdle
    /\ file = None /\ rd = None /\ log = None /\ out = None
    /\ source = None /\ tasks = None /\ uri = None /\ parts = None

\* A call of top_k; the partition is free to leave any of the orders it allows.
TopK ==
    /\ topk.some /\ ~topk.v.ret.some
    /\ \E vec \in Partitioned(topk.v.src.values,
                              IF extract_target_and_k(topk.v.k_s).ok
                              THEN extract_target_and_k(topk.v.k_s).v ELSE 0,
                              topk.v.descending) :
          topk' = Some([topk.v EXCEPT
                           !.vec = Some(vec),
                           !.ret = Some(top_k(topk.v.src, topk.v.k_s, topk.v.descending, vec))])
    /\ UNCHANGED hubVars
    /\ UNCHANGED <<decoderVars, readerVars, taskVars, pathVars>>

NextTopK == TopK

SpecTopK == InitTopK /\ [][NextTopK]_vars

\* The values of a sequence in ascending order, by insertion.
RECURSIVE Ascending(_)
Insert(x, sorted) ==
    LET n == Cardinality({i \in 1..Len(sorted) : sorted[i] <= x})
    IN  SubSeq(sorted, 1, n) \o <<x>> \o SubSeq(sorted, n + 1, Len(sorted))
Ascending(vec) == IF vec = <<>> THEN <<>> ELSE Insert(vec[1], Ascending(Tail(vec)))

\* The n largest values of vec (the n smallest when descending), in ascending order.
Extremes(vec, n, descending) ==
    IF descending
    THEN SubSeq(Ascending(vec), 1, n)
    ELSE SubSeq(Ascending(vec), Len(vec) - n + 1, Len(vec))

TopKReturned(S) == topk.some /\ topk.v.ret.some /\ topk.v.ret.v.ok /\ topk.v.src.sorted \in S
K == topk.v.k_s[1].v
Src == topk.v.src.values
TopValues == topk.v.ret.v.v

\* C22: without a sorted flag top_k returns min(k, len) values; the non-null
\* ones are the min(k, non-null count) largest non-null values of the column
\* (the smallest when descending), they come before every null, and there
\* are nulls only when k exceeds the non-null count.
C22_TopK ==
    TopKReturned({"Not"}) =>
    LET nn == Len(Src) - Cardinality({i \in 1..Len(Src) : ~Src[i].some})
        kept == IF K < nn THEN K ELSE nn
    IN  /\ Len(TopValues) = (IF K < Len(Src) THEN K ELSE Len(Src))
        /\ \A i \in 1..Len(TopValues) : TopValues[i].some <=> i <= kept
        /\ Ascending([i \in 1..kept |-> TopValues[i].v])
              = Extremes(Natives(Src), kept, topk.v.descending)

\* A column with a null and two different numbers,
\* k = 1: the larger number alone came back.
C22_Witness ==
    /\ TopKReturned({"Not"})
    /\ topk.v.src.dtype = "Int32"
    /\ Src = <<Some(1), None, Some(2)>>
    /\ K = 1 /\ ~topk.v.descending
    /\ TopValues = <<Some(2)>>

\* k exceeds the non-null count: the values, then a null.
C22_WitnessNulls ==
    /\ TopKReturned({"Not"})
    /\ topk.v.src.dtype = "Boolean"
    /\ Src = <<None, Some(0), Some(1)>>
    /\ K = 3 /\ topk.v.descending
    /\ TopValues = <<Some(0), Some(1), None>>

\* The same nulls and the same non-null values, in any order.
SameValues(a, b) ==
    /\ Len(a) = Len(b)
    /\ null_count(a) = null_count(b)
    /\ Ascending(Natives(a)) = Ascending(Natives(b))

\* C23: for a non-empty column that is sorted and flagged so, the slice of the
\* sorted fast path holds the same nulls and the same non-null values as the
\* general implementation returns for the column, k and descending, whatever
\* order its partition leaves.
C23_SortedAsGeneral ==
    (TopKReturned({"Ascending", "Descending"}) /\ Src # <<>>) =>
    \A vec \in Partitioned(Src, K, topk.v.descending) :
        SameValues(TopValues, top_k_general(topk.v.src, K, topk.v.descending, vec))

\* Nulls at the start of an ascending column, the smallest values asked for:
\* the slice starts after the nulls.
C23_Witness ==
    /\ TopKReturned({"Ascending"})
    /\ Src = <<None, Some(0), Some(2)>>
    /\ K = 1 /\ topk.v.descending
    /\ TopValues = <<Some(0)>>

\* Nulls at the end of a descending column, the smallest values asked for, more
\* than there are: the slice ends with a null.
C23_WitnessEnd ==
    /\ TopKReturned({"Descending"})
    /\ Src = <<Some(2), Some(1), None>>
    /\ K = 3 /\ topk.v.descending
    /\ null_count(TopValues) = 1 /\ Len(TopValues) = 3


----------------------------------------------------------------------------
(* GetPages::next (hugging_face.rs lines 161-183) against a server that    *)
(* may answer a request with any response.                                 *)

\* A GetPages is called up to MaxCalls times.
MaxCalls == 3

RelNext == <<"n", "e", "x", "t">>
RelLast == <<"l", "a", "s", "t">>

\* The link headers a response may carry: up to two entries, next or last.
LinkEntries == [uri : {<<"u">>, <<"v">>, <<Byte0xFF>>}, rel : {RelNext, RelLast}]
LinkLists == UNION {[1..n -> LinkEntries] : n \in 0..2}

\* A response: whether send() succeeded, the entries of its link header (None
\* without the header), whether its body could be read, and the body.
Response(sent, links, body_ok, body) ==
    [sent |-> sent, links |-> links, body_ok |-> body_ok, body |-> body]

SendFailed == Response(FALSE, None, FALSE, <<>>)

Responses ==
    {SendFailed} \cup
    {Response(TRUE, links, body_ok, <<>>) :
        links \in {None} \cup {Some(es) : es \in LinkLists}, body_ok \in BOOLEAN}

\* resp.headers().get("link")
link_header(resp) == IF resp.links.some THEN Some(JoinEntries(resp.links.v)) ELSE None

\* An Option that keeps its value when taken.
peek(opt) == opt

\* Option::take leaves None behind (line 162).
take(opt) == None

\* lines 171-179: the response has arrived; found is what find_link made of its header
store_link(taken, resp, found) ==
    IF found.some /\ ~found.v.ok
    THEN [self |-> taken, ret |-> Some(found.v)]
    ELSE IF ~resp.body_ok
    THEN [self |-> [taken EXCEPT !.uri = IF found.some THEN Some(found.v.v) ELSE None],
          ret |-> Some(Err(PolarsError("ComputeError", "body")))]
    ELSE [self |-> [taken EXCEPT !.uri = IF found.some THEN Some(found.v.v) ELSE None],
          ret |-> Some(Ok(resp.body))]

\* lines 161-183: the GetPages after the call and what the call returns
GetPages_next(self, resp) ==
    IF ~self.uri.some THEN [self |-> self, ret |-> None]
    ELSE IF ~resp.sent
    THEN [self |-> [self EXCEPT !.uri = take(self.uri)],
          ret |-> Some(Err(PolarsError("ComputeError", "send")))]
    ELSE store_link([self EXCEPT !.uri = take(self.uri)], resp,
                    IF link_header(resp).some
                    THEN find_link(link_header(resp).v, RelNext)
                    ELSE None)

GetPages(uri_) == [uri |-> uri_]

InitPages ==
    /\ gp = Some([self |-> GetPages(Some(<<"u">>)), calls |-> 0, requested |-> <<>>,
                  ended |-> FALSE, failed |-> FALSE, last |-> None])
    /\ finder = None /\ walk = None
    /\ TopKIdle
    /\ DecoderIdle
    /\ file = None /\ rd = None /\ log = None /\ out = None
    /\ source = None /\ tasks = None /\ uri = None /\ parts = None

\* The response has a rel="next" entry, and the URI of the first one.
HasNext(resp) ==
    resp.sent /\ resp.links.some
    /\ \E i \in 1..Len(resp.links.v) : resp.links.v[i].rel = RelNext
NextOf(resp) ==
    resp.links.v[CHOOSE i \in 1..Len(resp.links.v) :
                    /\ resp.links.v[i].rel = RelNext
                    /\ \A j \in 1..(i - 1) : resp.links.v[j].rel # RelNext].uri

\* A call of next by any caller; the server answers as it likes.
NextCall ==
    /\ gp.some /\ ~walk.some
    /\ gp.v.calls < MaxCalls
    /\ \E resp \in Responses :
         LET r == GetPages_next(gp.v.self, resp)
             had == gp.v.self.uri
         IN  gp' = Some([self |-> r.self,
                         calls |-> gp.v.calls + 1,
                         requested |-> IF had.some
                                       THEN Append(gp.v.requested, had.v)
                                       ELSE gp.v.requested,
                         ended |-> gp.v.ended \/ (had.some /\ ~HasNext(resp)),
                         failed |-> gp.v.failed \/ (r.ret.some /\ ~r.ret.v.ok),
                         last |-> Some([had |-> had,
                                        resp |-> IF had.some THEN Some(resp) ELSE None,
                                        ret |-> r.ret,
                                        before |-> Len(gp.v.requested),
                                        ended |-> gp.v.ended,
                                        failed |-> gp.v.failed])])
    /\ UNCHANGED <<finder, walk, topk>>
    /\ UNCHANGED <<decoderVars, readerVars, taskVars, pathVars>>

NextPages == NextCall

SpecPages == InitPages /\ [][NextPages]_vars

PageCalled == gp.some /\ ~walk.some /\ gp.v.last.some
LastCall == gp.v.last.v

\* C24 as claimed: after a call that took a URI the stored URI is the
\* rel="next" link of the response when the response carries one and absent
\* otherwise, also when the call failed; once a response without a next link
\* or a failed call has been seen, every later call returns None.
C24_AsClaimed ==
    PageCalled =>
    /\ ~LastCall.had.some => LastCall.ret = None
    /\ LastCall.had.some =>
          gp.v.self.uri =
               (IF HasNext(LastCall.resp.v) /\ LastCall.ret.v.ok
                THEN Some(NextOf(LastCall.resp.v))
                ELSE None)
    /\ (LastCall.ended \/ LastCall.failed) => LastCall.ret = None

\* C24: a call of next takes the stored URI and requests it once; after the
\* call the stored URI is the rel="next" link of the response when the
\* response was received and has one that is text, whether or not its body
\* could then be read, and absent otherwise, also when the request could not
\* be sent; once a response without a next link or a request that could not
\* be sent has been seen every later call returns None and requests nothing.
C24_Pages ==
    PageCalled =>
    /\ ~LastCall.had.some =>
          /\ LastCall.ret = None
          /\ gp.v.self.uri = None
          /\ Len(gp.v.requested) = LastCall.before
    /\ LastCall.had.some =>
          /\ LastCall.ret.some
          /\ gp.v.requested = SubSeq(gp.v.requested, 1, LastCall.before) \o <<LastCall.had.v>>
          /\ gp.v.self.uri =
               (IF HasNext(LastCall.resp.v) /\ from_utf8(NextOf(LastCall.resp.v)).ok
                THEN Some(NextOf(LastCall.resp.v))
                ELSE None)
    /\ LastCall.ended => (LastCall.ret = None /\ ~LastCall.had.some)

\* A page with a next link, a page without one, and a third call that returned None.
C24_Witness ==
    /\ PageCalled
    /\ gp.v.calls = 3
    /\ gp.v.requested = <<<<"u">>, <<"v">>>>
    /\ LastCall.ended /\ LastCall.ret = None

\* The request could not be sent: nothing is stored.
C24_WitnessFailed ==
    /\ PageCalled
    /\ LastCall.had.some /\ LastCall.resp.v = SendFailed
    /\ gp.v.self.uri = None

\* The body of a response with a next link could not be read: the call returns
\* the error and the link is stored.
C24_WitnessBody ==
    /\ PageCalled
    /\ LastCall.had.some /\ LastCall.ret.some /\ ~LastCall.ret.v.ok
    /\ gp.v.self.uri = Some(<<"v">>)


----------------------------------------------------------------------------
(* expand_paths_hf (hugging_face.rs lines 215-330) against a repository    *)
(* whose tree the server lists page by page.  The paths of the model hold  *)
(* letters and '/', which percent_encode leaves as they are; the two base  *)
(* URIs are one element each.                                              *)

\* A page holds up to MaxPage entries, a call gets up to MaxPaths paths.
MaxPage == 2
MaxPaths == 2

Slash == "/"
Dir == <<"d">>
Sub(path, name) == path \o <<Slash, name>>

HFAPIResponse(type_, path, size) == [type_ |-> type_, path |-> path, size |-> size]
is_file(x) == x.type_ = "file"
is_directory(x) == x.type_ = "directory"

\* The trees of the model: d may hold the files a and b and the directories s
\* and t, s holds a file a and may hold a directory s, t holds a file a.  The
\* file d/a is absent, empty or not empty.
FileStates == {"absent", "empty", "full"}
Trees ==
    {tr \in [a : FileStates, b : {"absent", "full"}, s : BOOLEAN, ss : BOOLEAN, t : BOOLEAN] :
        ~tr.s => ~tr.ss}

FileEntry(path, state) ==
    IF state = "absent" THEN <<>>
    ELSE <<HFAPIResponse("file", path, IF state = "empty" THEN 0 ELSE 1)>>
DirEntry(path, present) ==
    IF present THEN <<HFAPIResponse("directory", path, 0)>> ELSE <<>>

\* What the server lists for a directory, in the order it lists it.
Listing(tr, dir) ==
    IF dir = Dir
    THEN FileEntry(Sub(Dir, "b"), tr.b) \o DirEntry(Sub(Dir, "t"), tr.t)
         \o FileEntry(Sub(Dir, "a"), tr.a) \o DirEntry(Sub(Dir, "s"), tr.s)
    ELSE IF dir = Sub(Dir, "s") /\ tr.s
    THEN DirEntry(Sub(Sub(Dir, "s"), "s"), tr.ss)
         \o FileEntry(Sub(Sub(Dir, "s"), "a"), "full")
    ELSE IF dir = Sub(Dir, "t") /\ tr.t
    THEN FileEntry(Sub(Sub(Dir, "t"), "a"), "full")
    ELSE <<>>

IsDir(tr, dir) ==
    \/ dir = Dir
    \/ dir = Sub(Dir, "s") /\ tr.s
    \/ dir = Sub(Dir, "t") /\ tr.t
    \/ dir = Sub(Sub(Dir, "s"), "s") /\ tr.ss

IsFile(tr, path) ==
    \E dir \in {Dir, Sub(Dir, "s"), Sub(Dir, "t")} :
    \E i \in 1..Len(Listing(tr, dir)) :
        is_file(Listing(tr, dir)[i]) /\ Listing(tr, dir)[i].path = path

\* A path without its trailing '/'.
Trimmed(path) ==
    IF path # <<>> /\ path[Len(path)] = Slash THEN SubSeq(path, 1, Len(path) - 1) ELSE path

ApiBase == "https://huggingface.co/api/"
DownloadBase == "https://huggingface.co/"

\* lines 33-50
HFRepoLocation_new(bucket, repository, revision) ==
    [api_base_path |-> <<ApiBase>> \o bucket \o <<Slash>> \o repository
                          \o <<Slash, "t", "r", "e", "e", Slash>> \o revision \o <<Slash>>,
     download_base_path |-> <<DownloadBase>> \o bucket \o <<Slash>> \o repository
                          \o <<Slash, "r", "e", "s", "o", "l", "v", "e", Slash>>
                          \o revision \o <<Slash>>]

ends_with(str, suffix) ==
    Len(str) >= Len(suffix) /\ SubSeq(str, Len(str) - Len(suffix) + 1, Len(str)) = suffix

\* lines 52-66
get_file_uri(self, rel_path) == self.download_base_path \o rel_path
get_api_uri(self, rel_path) == self.api_base_path \o rel_path

\* The URI of page n of a listing.
Digits == <<"1", "2", "3", "4">>
PageUri(api_uri, n) == IF n = 1 THEN api_uri ELSE api_uri \o <<"?", "p", Digits[n]>>

PagesOf(listing, size) == (Len(listing) + size - 1) \div size
PageOf(listing, size, n) ==
    SubSeq(listing, (n - 1) * size + 1, Min(n * size, Len(listing)))

Garbage == "not a listing"

\* What the server answers to a GET of uri_: the page and the link to the next
\* one, or a body that is no listing when it knows no such page.
Answer(server, repo, uri_) ==
    LET known == {q \in {Dir, Dir \o <<Slash>>, Sub(Dir, "s"), Sub(Dir, "s") \o <<Slash>>,
                         Sub(Dir, "t"), Sub(Sub(Dir, "s"), "s")} \X (1..4) :
                     /\ IsDir(server.tree, Trimmed(q[1]))
                     /\ PageUri(get_api_uri(repo, q[1]), q[2]) = uri_
                     /\ \/ q[2] = 1
                        \/ q[2] <= PagesOf(Listing(server.tree, Trimmed(q[1])), server.page)}
    IN  IF known = {} THEN Response(TRUE, None, TRUE, Garbage)
        ELSE
    LET q == CHOOSE q \in known : TRUE
        listing == Listing(server.tree, Trimmed(q[1]))
        pages == PagesOf(listing, server.page)
    IN  Response(TRUE,
                 IF q[2] < pages
                 THEN Some(<<[uri |-> PageUri(get_api_uri(repo, q[1]), q[2] + 1),
                              rel |-> RelNext],
                             [uri |-> PageUri(get_api_uri(repo, q[1]), pages),
                              rel |-> RelLast]>>)
                 ELSE None,
                 TRUE,
                 PageOf(listing, server.page, q[2]))

\* decode_json_response
decode_json_response(bytes) ==
    IF bytes = Garbage THEN Err(PolarsError("ComputeError", "json")) ELSE Ok(bytes)

\* The order of bytes, and str::partial_cmp
Alphabet == <<"*", Slash, "a", "b", "d", "s", "t">>
Rank(c) == CHOOSE i \in 1..Len(Alphabet) : Alphabet[i] = c

RECURSIVE str_lt(_, _)
str_lt(a, b) ==
    IF b = <<>> THEN FALSE
    ELSE IF a = <<>> THEN TRUE
    ELSE IF a[1] = b[1] THEN str_lt(Tail(a), Tail(b))
    ELSE Rank(a[1]) < Rank(b[1])

\* line 317: entries.sort_unstable_by(path); the paths of a listing differ
RECURSIVE sort_unstable_by_path(_)
sort_unstable_by_path(entries) ==
    IF entries = <<>> THEN <<>>
    ELSE LET rest == sort_unstable_by_path(Tail(entries))
             n == Cardinality({i \in 1..Len(rest) : str_lt(rest[i].path, entries[1].path)})
         IN  SubSeq(rest, 1, n) \o <<entries[1]>> \o SubSeq(rest, n + 1, Len(rest))

\* A loop over the entries that leaves them in the buffer.
iter(entries) == entries

\* line 319: entries.drain(..) leaves the buffer empty
drain(entries) == <<>>

\* extract_prefix_expansion: the prefix up to the first wildcard, and the rest
extract_prefix_expansion(rel_path) ==
    LET star == memchr("*", rel_path)
    IN  IF star.some
        THEN [prefix |-> SubSeq(rel_path, 1, star.v),
              expansion |-> Some(SubSeq(rel_path, star.v + 1, Len(rel_path)))]
        ELSE [prefix |-> rel_path, expansion |-> None]

\* Matcher::is_matching for the expansion "*": the prefix, then no '/'
is_matching(prefix, path) ==
    /\ starts_with(path, prefix)
    /\ ~memchr(Slash, SubSeq(path, Len(prefix) + 1, Len(path))).some

\* lines 304-306 and 313
keep_entry(matcher, x) ==
    IF matcher.some
    THEN ~is_file(x) \/ (x.size > 0 /\ is_matching(matcher.v, x.path))
    ELSE ~is_file(x) \/ x.size > 0

\* Path::parent of a URI
Parent(u) ==
    LET t == Trimmed(u)
        cut == {i \in 1..Len(t) : t[i] = Slash}
    IN  IF cut = {} THEN <<>>
        ELSE SubSeq(t, 1, (CHOOSE i \in cut : \A j \in cut : j <= i) - 1)

\* HiveIdxTracker::update
hive_idx_update(idx, i, paths, path_idx, check_directory_level) ==
    IF /\ check_directory_level
       /\ idx \notin {UsizeMax, i}
       /\ path_idx > 1
       /\ Parent(paths[path_idx]) # Parent(paths[path_idx - 1])
    THEN Err(PolarsError("InvalidOperation",
                         "attempted to read from different directory levels"))
    ELSE Ok(Min(idx, i))

RepoUri == Hf \o Datasets \o <<Slash, "u", Slash, "r", Slash>>

PathChoices ==
    {RepoUri \o rel : rel \in {Dir \o <<Slash>>, Sub(Dir, "a"), Sub(Dir, "s") \o <<Slash>>,
                               Sub(Dir, "t"), Dir \o <<Slash, "*">>}}
    \cup {S3 \o Datasets \o <<Slash, "u", Slash, "r", Slash>> \o Dir}

PathLists == UNION {[1..n -> PathChoices] : n \in 1..MaxPaths}

Servers == [tree : Trees, page : 1..MaxPage]

InitWalk ==
    /\ \E paths \in PathLists, server \in Servers, check_directory_level \in BOOLEAN :
          walk = Some([paths |-> paths, glob |-> TRUE,
                       check_directory_level |-> check_directory_level,
                       server |-> server,
                       path_idx |-> 1, repo |-> None, matcher |-> None, rel_path |-> None,
                       stack |-> <<>>, entries |-> <<>>, out_paths |-> <<>>,
                       idx |-> UsizeMax, pc |-> "path", ret |-> None,
                       pushed |-> <<>>, popped |-> <<>>, drained |-> None])
    /\ gp = None
    /\ finder = None
    /\ TopKIdle
    /\ DecoderIdle
    /\ file = None /\ rd = None /\ log = None /\ out = None
    /\ source = None /\ tasks = None /\ uri = None /\ parts = None

Walk(w) ==
    /\ walk' = Some(w)
    /\ UNCHANGED <<finder, topk>>
    /\ UNCHANGED <<decoderVars, readerVars, taskVars, pathVars>>

Fails(e) == [walk.v EXCEPT !.pc = "err", !.ret = Some(Err(e))]
Panics(what) == [walk.v EXCEPT !.pc = "panic", !.ret = Some(what)]

\* lines 279-281: the path names a file
PushFile(w, file_uri, u) ==
    IF ~u.ok THEN Walk(Fails(u.err))
    ELSE Walk([w EXCEPT !.idx = u.v,
                        !.out_paths = Append(@, file_uri),
                        !.path_idx = @ + 1])

\* lines 285-288: the listing of the path begins
PushPrefix(w, repo, pe, u) ==
    IF ~u.ok THEN Walk(Fails(u.err))
    ELSE IF w.stack # <<>> THEN Walk(Panics("assert!(stack.is_empty())"))
    ELSE Walk([w EXCEPT !.idx = u.v,
                        !.repo = Some(repo),
                        !.matcher = IF pe.expansion.some THEN Some(pe.prefix) ELSE None,
                        !.stack = Append(@, pe.prefix),
                        !.pushed = <<pe.prefix>>,
                        !.popped = <<>>,
                        !.pc = "pop"])

\* lines 268-288
CheckFile(w, repo, rel_path, pe, file_uri, head_sent) ==
    IF ~ends_with(rel_path, <<Slash>>) /\ ~pe.expansion.some /\ ~head_sent
    THEN Walk(Fails(PolarsError("ComputeError", "send")))
    ELSE IF /\ ~ends_with(rel_path, <<Slash>>) /\ ~pe.expansion.some
            /\ IsFile(w.server.tree, rel_path)
    THEN PushFile(w, file_uri,
                  hive_idx_update(w.idx, 0, w.paths, w.path_idx, w.check_directory_level))
    ELSE PushPrefix(w, repo, pe,
                    hive_idx_update(w.idx, Len(file_uri), w.paths, w.path_idx,
                                    w.check_directory_level))

\* lines 250-268
Locate(w, repo, rel_path, head_sent) ==
    CheckFile(w, repo, rel_path,
              IF w.glob THEN extract_prefix_expansion(rel_path)
              ELSE [prefix |-> rel_path, expansion |-> None],
              get_file_uri(repo, rel_path), head_sent)

\* line 249 on
Parsed(w, path_parts, head_sent) ==
    IF ~path_parts.ok THEN Walk(Fails(path_parts.err))
    ELSE Locate(w,
                HFRepoLocation_new(path_parts.v.bucket, path_parts.v.repository,
                                   path_parts.v.revision),
                path_parts.v.path, head_sent)

\* lines 248-288: one pass of `for (path_idx, path) in paths`, up to the first
\* listing; the HEAD request may fail to be sent.
BeginPath ==
    /\ walk.some /\ walk.v.pc = "path"
    /\ walk.v.path_idx <= Len(walk.v.paths)
    /\ \E head_sent \in BOOLEAN :
          Parsed(walk.v, try_from_uri(walk.v.paths[walk.v.path_idx]), head_sent)
    /\ UNCHANGED gp

\* line 329: the paths are used up
ReturnOk ==
    /\ walk.some /\ walk.v.pc = "path"
    /\ walk.v.path_idx > Len(walk.v.paths)
    /\ Walk([walk.v EXCEPT !.pc = "ok",
                           !.ret = Some(Ok(<<walk.v.idx, walk.v.out_paths>>))])
    /\ UNCHANGED gp

\* lines 290-297: `while let Some(rel_path) = stack.pop_front()`
PopDir ==
    /\ walk.some /\ walk.v.pc = "pop"
    /\ LET w == walk.v
       IN  IF w.stack = <<>>
           THEN Walk([w EXCEPT !.pc = "path", !.path_idx = @ + 1]) /\ UNCHANGED gp
           ELSE IF w.entries # <<>>
           THEN Walk(Panics("assert!(entries.is_empty())")) /\ UNCHANGED gp
           ELSE /\ Walk([w EXCEPT !.stack = Tail(@),
                                  !.rel_path = Some(Head(w.stack)),
                                  !.popped = Append(@, Head(w.stack)),
                                  !.pc = "page"])
                /\ gp' = Some([self |-> GetPages(Some(get_api_uri(w.repo.v, Head(w.stack)))),
                               requested |-> <<>>])

\* What the server, the network and the body give for the stored URI.
Served(w, self, sent, body_ok) ==
    IF ~sent \/ ~self.uri.some THEN SendFailed
    ELSE [Answer(w.server, w.repo.v, self.uri.v) EXCEPT !.body_ok = body_ok]

\* lines 301-313: the page has arrived
Extend(w, response) ==
    IF ~response.ok THEN Walk(Fails(response.err))
    ELSE Walk([w EXCEPT !.entries =
                  @ \o SelectSeq(response.v, LAMBDA x : keep_entry(w.matcher, x))])

\* lines 300-314, r is what gp.next() gave
Page(w, r) ==
    /\ gp' = Some([self |-> r.self,
                   requested |-> IF gp.v.self.uri.some
                                 THEN Append(gp.v.requested, gp.v.self.uri.v)
                                 ELSE gp.v.requested])
    /\ IF ~r.ret.some THEN Walk([w EXCEPT !.pc = "drain"])
       ELSE IF ~r.ret.v.ok THEN Walk(Fails(r.ret.v.err))
       ELSE Extend(w, decode_json_response(r.ret.v.v))

\* lines 299-315: one pass of `while let Some(bytes) = gp.next().await`; the
\* request may fail to be sent and the body may fail to be read.
NextPage ==
    /\ walk.some /\ walk.v.pc = "page"
    /\ \E sent \in BOOLEAN, body_ok \in BOOLEAN :
          Page(walk.v, GetPages_next(gp.v.self, Served(walk.v, gp.v.self, sent, body_ok)))

\* lines 317-325: sort the entries, emit the files, queue the directories
SortAndDrain ==
    /\ walk.some /\ walk.v.pc = "drain"
    /\ LET w == walk.v
           sorted == sort_unstable_by_path(w.entries)
           files == SelectSeq(sorted, is_file)
           dirs == SelectSeq(sorted, LAMBDA e : ~is_file(e) /\ is_directory(e))
           file_uris == [i \in 1..Len(files) |-> get_file_uri(w.repo.v, files[i].path)]
           dir_paths == [i \in 1..Len(dirs) |-> dirs[i].path]
       IN  Walk([w EXCEPT !.entries = drain(sorted),
                          !.out_paths = @ \o file_uris,
                          !.stack = @ \o dir_paths,
                          !.pushed = @ \o dir_paths,
                          !.drained = Some([dir |-> w.rel_path.v,
                                            files |-> [i \in 1..Len(files) |-> files[i].path],
                                            dirs |-> dir_paths]),
                          !.pc = "pop"])
    /\ UNCHANGED gp

NextWalk == BeginPath \/ ReturnOk \/ PopDir \/ NextPage \/ SortAndDrain

SpecWalk == InitWalk /\ [][NextWalk]_vars

Listed == Listing(walk.v.server.tree, Trimmed(walk.v.drained.v.dir))
Count(seq, x) == Cardinality({i \in 1..Len(seq) : seq[i] = x})

\* C25: neither assertion of expand_paths_hf fails: the queue is empty when
\* the listing of an input path begins and the entries buffer is empty when
\* the listing of a directory begins; the files of one directory are emitted
\* in ascending order of their paths and none of them is empty, and every
\* sub-directory a directory lists is queued exactly once and listed in the
\* order it was queued.
C25_Expand ==
    walk.some =>
    /\ walk.v.pc # "panic"
    /\ walk.v.pc = "path" => walk.v.stack = <<>>
    /\ walk.v.pc \in {"pop", "path"} => walk.v.entries = <<>>
    /\ walk.v.popped = SubSeq(walk.v.pushed, 1, Len(walk.v.popped))
    /\ \A p \in {walk.v.pushed[i] : i \in 1..Len(walk.v.pushed)} :
          Count(walk.v.pushed, p) = 1
    /\ (walk.v.drained.some /\ walk.v.pc = "pop") =>
          /\ \A i, j \in 1..Len(walk.v.drained.v.files) :
                i < j => str_lt(walk.v.drained.v.files[i], walk.v.drained.v.files[j])
          /\ \A i \in 1..Len(walk.v.drained.v.files) :
                \E n \in 1..Len(Listed) :
                   /\ Listed[n].path = walk.v.drained.v.files[i]
                   /\ Listed[n].type_ = "file" /\ Listed[n].size > 0
          /\ \A n \in 1..Len(Listed) :
                Listed[n].type_ = "directory"
                   => Count(walk.v.pushed, Listed[n].path) = 1

\* Two input paths were listed; the second listing began with an empty queue
\* after the first had queued and listed two sub-directories.
C25_Witness ==
    /\ walk.some /\ walk.v.pc = "pop"
    /\ walk.v.path_idx = 2
    /\ Len(walk.v.out_paths) >= 3
    /\ walk.v.drained.some /\ Len(walk.v.drained.v.files) = 1
    /\ walk.v.server.tree.a = "empty"

\* A directory with two files and two sub-directories, listed on two pages out
\* of order: the files came out ascending and both directories are queued.
C25_WitnessOrder ==
    /\ walk.some /\ walk.v.pc = "pop"
    /\ walk.v.drained.some
    /\ Len(walk.v.drained.v.files) = 2 /\ Len(walk.v.drained.v.dirs) = 2
    /\ walk.v.server.page = 2

\* The call returned the paths.
C25_WitnessOk ==
    /\ walk.some /\ walk.v.pc = "ok"
    /\ Len(walk.v.paths) = 2 /\ Len(walk.v.popped) = 4


\* A path that names a file is answered by the HEAD request and emitted without
\* a listing, whatever the size of the file.
C25_WitnessDirect ==
    /\ walk.some /\ walk.v.pc = "ok"
    /\ Len(walk.v.paths) = 1 /\ Len(walk.v.out_paths) = 1
    /\ walk.v.server.tree.a = "empty"
    /\ ~walk.v.drained.some

============================================================================
